---- MODULE Spec2Model ----
\* Verification model of hummingbot's StrategyBase (market registration, guarded
\* order placement, order-tracking event hooks) and ArbitrageStrategy (tick gate,
\* readiness and cooldown, order-book matching, fee- and balance-aware sizing,
\* dispatch), from src/hummingbot/strategy/strategy_base.pyx.
\*
\* Numbers that the code holds as C doubles or Decimals are modelled as exact
\* rationals <<numerator, denominator>> with a positive denominator.
EXTENDS Integers, Sequences, FiniteSets, TLC

VARIABLES
    now,              \* TimeIterator._current_timestamp
    sbMarkets,        \* StrategyBase._sb_markets
    delegateLock,     \* StrategyBase._sb_delegate_lock
    trackedLimit,     \* OrderTracker: tracked limit orders, order id -> record
    trackedMarket,    \* OrderTracker: tracked market orders, order id -> record
    mkt,              \* MarketPort: orders accepted by the markets, order id -> record
    listeners,        \* event bus: <<market, tag>> the strategy's listener is bound to
    inFlightCancels,  \* OrderTracker: order ids with a pending cancel request
    cancels,          \* MarketPort: the cancels forwarded to the markets, in order
    allMarketsReady,  \* ArbitrageStrategy._all_markets_ready
    lastTimestamp,    \* ArbitrageStrategy._last_timestamp
    lastTrade,        \* ArbitrageStrategy._last_trade_timestamps
    ticks,            \* number of ticks delivered so far (bounded by MaxTicks)
    last,             \* what the most recent handler invocation did
    fn                \* inputs/outputs of the pure-function specifications

vars == <<now, sbMarkets, delegateLock, trackedLimit, trackedMarket, mkt,
          listeners, inFlightCancels, cancels,
          allMarketsReady, lastTimestamp, lastTrade, ticks, last, fn>>

strategyVars == <<now, sbMarkets, delegateLock, trackedLimit, trackedMarket, mkt,
                  listeners, inFlightCancels, cancels,
                  allMarketsReady, lastTimestamp, lastTrade, ticks, last>>

-----------------------------------------------------------------------------
\* Bounds of the model.

\* Orders the markets accept in one behaviour.
MaxOrders == 4
\* Ticks delivered in one behaviour.
MaxTicks == 2
\* Orders accepted from direct placement calls in one behaviour.
MaxDirect == 1
\* Ticks of the base class alone in one behaviour.
MaxBaseTicks == 1
\* Cancels forwarded to the markets in one behaviour.
MaxCancels == 2
\* Price levels per side of a book in the pure-function specifications.
MaxLevels == 2

-----------------------------------------------------------------------------
\* Program constants.

\* ArbitrageStrategy.MARKET_ORDER_MAX_TRACKING_TIME = 60.0 * 10
MARKET_ORDER_MAX_TRACKING_TIME == 600
\* StrategyBase._sb_limit_order_min_expiration = 130.0
LimitOrderMinExpiration == 130
\* ArbitrageStrategy.__init__: next_trade_delay_interval = 15.0
NextTradeDelay == 15
\* Timestamp handed to c_start.
StartTime == 1000

-----------------------------------------------------------------------------
\* Exact rational arithmetic standing for the code's double/Decimal arithmetic.

RECURSIVE GCD(_, _)
GCD(a, b) == IF b = 0 THEN a ELSE GCD(b, a % b)

Abs(n) == IF n < 0 THEN -n ELSE n

Rat(n, d) ==
    LET s == IF d < 0 THEN -1 ELSE 1
        g == GCD(Abs(n), Abs(d))
    IN  IF n = 0 THEN <<0, 1>> ELSE <<(s * n) \div g, (s * d) \div g>>

RInt(n) == <<n, 1>>
Zero == <<0, 1>>
One == <<1, 1>>

RAdd(x, y) == Rat(x[1] * y[2] + y[1] * x[2], x[2] * y[2])
RSub(x, y) == Rat(x[1] * y[2] - y[1] * x[2], x[2] * y[2])
RMul(x, y) == Rat(x[1] * y[1], x[2] * y[2])
\* Division; the divisor is non-zero wherever this is used.
RDiv(x, y) == Rat(x[1] * y[2], x[2] * y[1])
RLt(x, y) == x[1] * y[2] < y[1] * x[2]
RLe(x, y) == x[1] * y[2] <= y[1] * x[2]
RMin(x, y) == IF RLt(y, x) THEN y ELSE x
RIsZero(x) == x[1] = 0

-----------------------------------------------------------------------------
\* RateNormalizer (ExchangeRateConversion): the value of one unit of an asset in
\* the reference currency.

TokenRate(asset) ==
    CASE asset = "USD" -> One
      [] asset = "DAI" -> One
      [] asset = "EUR" -> <<2, 1>>
      [] asset = "GAS" -> <<1, 2>>
      [] OTHER -> One

\* ExchangeRateConversion.adjust_token_rate(asset, price)
adjust_token_rate(asset, price) == RMul(price, TokenRate(asset))

\* ExchangeRateConversion.convert_token_value(amount, from_currency, to_currency)
convert_token_value(amount, from, to) ==
    RDiv(RMul(amount, TokenRate(from)), TokenRate(to))

-----------------------------------------------------------------------------
\* c_find_profitable_arbitrage_orders: the two-pointer merge of the sell-side
\* book's bids with the buy-side book's asks.  A book is a record
\* [bids, asks] of sequences of levels [price, amount].  The loop state s holds
\* the number of levels pulled from each iterator (bi, ai), the leftovers and
\* the steps emitted so far.

MatchInit ==
    [bi |-> 0, ai |-> 0, bl |-> Zero, al |-> Zero, steps |-> <<>>, stop |-> FALSE,
     passes |-> 0, ended |-> "running"]

\* next() on an iterator that has yielded pulled of the levels raises
\* StopIteration when none is left (lines 937-938, 944, 951).
Exhausted(levels, pulled) == pulled + 1 > Len(levels)

\* One pass of the iterator-advancing part of the loop body (lines 936-958).
\* stop is TRUE when next() raised StopIteration ("exhausted") or the else
\* branch broke out ("negative").  In the first branch next(bid_it) runs before
\* next(ask_it); either raising ends the loop.
MatchAdvance(bids, asks, s) ==
    LET bz == RIsZero(s.bl)
        az == RIsZero(s.al)
        bp == RLt(Zero, s.bl)
        ap == RLt(Zero, s.al)
        out == [s EXCEPT !.stop = TRUE, !.ended = "exhausted"]
    IN  IF bz /\ az THEN
            IF Exhausted(bids, s.bi) \/ Exhausted(asks, s.ai)
            THEN out
            ELSE [s EXCEPT !.bi = s.bi + 1, !.ai = s.ai + 1,
                           !.al = asks[s.ai + 1].amount,
                           !.bl = bids[s.bi + 1].amount]
        ELSE IF bp /\ az THEN
            IF Exhausted(asks, s.ai)
            THEN out
            ELSE [s EXCEPT !.ai = s.ai + 1, !.al = asks[s.ai + 1].amount]
        ELSE IF ap /\ bz THEN
            IF Exhausted(bids, s.bi)
            THEN out
            ELSE [s EXCEPT !.bi = s.bi + 1, !.bl = bids[s.bi + 1].amount]
        ELSE IF bp /\ ap THEN s
        ELSE [s EXCEPT !.stop = TRUE, !.ended = "negative"]

\* The larger leftover instead of the smaller.
StepAmountLarger(bid_leftover_amount, ask_leftover_amount) ==
    IF RLt(bid_leftover_amount, ask_leftover_amount)
    THEN ask_leftover_amount ELSE bid_leftover_amount

\* Line 972: the size of a step.
StepAmount(bid_leftover_amount, ask_leftover_amount) ==
    RMin(bid_leftover_amount, ask_leftover_amount)

\* Only the ratio test against 1 + min_profitability, for any sign of it.
SpreadClosedBelowMinimumOnly(min_profitability, bid_adj, ask_adj) ==
    RLt(RDiv(bid_adj, ask_adj), RAdd(One, min_profitability))

\* Lines 966-970: the spread has closed, or the step is below a negative
\* minimum profitability.
SpreadClosed(min_profitability, bid_adj, ask_adj) ==
    \/ RLt(bid_adj, ask_adj)
    \/ /\ RLt(min_profitability, Zero)
       /\ RLt(RDiv(bid_adj, ask_adj), RAdd(One, min_profitability))

\* The loop (lines 934-983).  The value is the loop's final state: the steps
\* emitted, the number of passes through the body and how it ended.
RECURSIVE MatchLoop(_, _, _, _, _, _)
MatchLoop(min_profitability, bids, asks, buy_quote, sell_quote, s0) ==
    LET s == MatchAdvance(bids, asks,
                 [s0 EXCEPT !.stop = FALSE, !.passes = s0.passes + 1])
    IN  IF s.stop THEN s
        ELSE
          LET current_bid == bids[s.bi]
              current_ask == asks[s.ai]
              bid_adj == adjust_token_rate(sell_quote, current_bid.price)
              ask_adj == adjust_token_rate(buy_quote, current_ask.price)
              step_amount == StepAmount(s.bl, s.al)
          IN  IF SpreadClosed(min_profitability, bid_adj, ask_adj)
              THEN [s EXCEPT !.stop = TRUE, !.ended = "closed"]
              ELSE MatchLoop(min_profitability, bids, asks, buy_quote, sell_quote,
                     [s EXCEPT
                        !.steps = Append(s.steps,
                            [bid_adj |-> bid_adj, ask_adj |-> ask_adj,
                             bid |-> current_bid.price, ask |-> current_ask.price,
                             amount |-> step_amount, bi |-> s.bi, ai |-> s.ai]),
                        !.al = RSub(s.al, step_amount),
                        !.bl = RSub(s.bl, step_amount)])

\* The steps are dropped when the books ran out.
MatchReturnNothingWhenExhausted(s) ==
    IF s.ended = "exhausted" THEN <<>> ELSE s.steps

\* Lines 982-985: StopIteration is swallowed and the steps emitted so far are
\* returned, however the loop ended.
MatchReturn(s) == s.steps

\* The loop run on the two books of a pair: the sell market's bids against the
\* buy market's asks (lines 930-933).
MatchRun(min_profitability, buy_order_book, sell_order_book, buy_market_quote_asset, sell_market_quote_asset) ==
    MatchLoop(min_profitability, sell_order_book.bids, buy_order_book.asks,
              buy_market_quote_asset, sell_market_quote_asset,
              MatchInit)

c_find_profitable_arbitrage_orders(min_profitability, buy_order_book, sell_order_book, buy_market_quote_asset, sell_market_quote_asset) ==
    MatchReturn(MatchRun(min_profitability, buy_order_book, sell_order_book,
                         buy_market_quote_asset, sell_market_quote_asset))

-----------------------------------------------------------------------------
\* c_find_best_profitable_amount.  A leg (MarketSymbolPair) is seen through a
\* view [base, quote, book, base_balance, quote_balance, fee, lot], fee being
\* what MarketBase.c_get_fee returns: [percent, flat_fees], flat_fees a sequence
\* of <<asset, amount>>.

\* Lines 815-835: flat fees summed in the leg's quote asset.
RECURSIVE TotalFlatFees(_, _)
TotalFlatFees(flat_fees, quote_asset) ==
    IF flat_fees = <<>> THEN Zero
    ELSE LET f == Head(flat_fees)
             v == IF f[1] = quote_asset THEN f[2]
                  ELSE convert_token_value(f[2], f[1], quote_asset)
         IN  RAdd(v, TotalFlatFees(Tail(flat_fees), quote_asset))

\* The cap by the quote balance alone.
BalanceCappedAmountIgnoringBase(buy, sell, ask_price, total_buy_flat_fees) ==
    RDiv(RSub(RDiv(buy.quote_balance, ask_price), total_buy_flat_fees),
         RAdd(One, buy.fee.percent))

\* Lines 869-872: the balance-capped amount.
BalanceCappedAmount(buy, sell, ask_price, total_buy_flat_fees) ==
    LET buy_market_adjusted_order_size ==
            RDiv(RSub(RDiv(buy.quote_balance, ask_price), total_buy_flat_fees),
                 RAdd(One, buy.fee.percent))
    IN  RMin(sell.base_balance, buy_market_adjusted_order_size)

\* Lines 855-856: the buy leg lacks quote asset or the sell leg lacks base asset.
BalanceShort(buy, sell, net_buy_costs, cumulative) ==
    \/ RLt(buy.quote_balance, net_buy_costs)
    \/ RLt(sell.base_balance, cumulative)

SizingInit ==
    [total_bid_value_adjusted |-> Zero, total_ask_value_adjusted |-> Zero,
     total_previous_step_base_amount |-> Zero,
     best_amount |-> Zero, best_profitability |-> Zero,
     raised |-> FALSE, capped |-> FALSE, candidates |-> 0,
     recorded |-> Zero, stopped |-> "exhausted", prior |-> 0, prior_amount |-> Zero]

\* A step at exactly the threshold qualifies too.
QualifiesOrEqual(profitability, threshold) == RLe(threshold, profitability)

\* Line 845: the running profitability strictly exceeds 1 + min_profitability.
Qualifies(profitability, threshold) == RLt(threshold, profitability)

\* Lines 797-878: the loop over the matched steps, from step i on.  Besides the
\* function's locals the accumulator keeps what the walk did: recorded is the
\* amount of the last candidate line 846 recorded, stopped is how the loop ended
\* ("exhausted", or at a balance shortfall "short_kept" by the break of line 859
\* or "short_capped" by lines 869-874), prior and prior_amount are the number
\* of candidates and the best amount before the step of the shortfall.
RECURSIVE SizingLoop(_, _, _, _, _, _)
SizingLoop(min_profitability, buy, sell, steps, i, a) ==
    IF i > Len(steps) THEN a
    ELSE
      LET st == steps[i]
          total_buy_flat_fees == TotalFlatFees(buy.fee.flat_fees, buy.quote)
          total_sell_flat_fees == TotalFlatFees(sell.fee.flat_fees, sell.quote)
          tbva == RAdd(a.total_bid_value_adjusted, RMul(st.bid_adj, st.amount))
          tava == RAdd(a.total_ask_value_adjusted, RMul(st.ask_adj, st.amount))
          net_sell_proceeds ==
              RSub(RMul(tbva, RSub(One, sell.fee.percent)), total_sell_flat_fees)
          net_buy_costs ==
              RAdd(RMul(tava, RAdd(One, buy.fee.percent)), total_buy_flat_fees)
          cumulative == RAdd(a.total_previous_step_base_amount, st.amount)
          threshold == RAdd(One, min_profitability)
      IN  IF RIsZero(net_buy_costs)
          THEN [a EXCEPT !.raised = TRUE]   \* ZeroDivisionError at line 841
          ELSE
            LET profitability == RDiv(net_sell_proceeds, net_buy_costs)
                a1 == IF Qualifies(profitability, threshold)
                      THEN [a EXCEPT !.best_amount = cumulative,
                                     !.best_profitability = profitability,
                                     !.candidates = 1,
                                     !.recorded = cumulative]
                      ELSE a
                short == BalanceShort(buy, sell, net_buy_costs, cumulative)
            IN  IF short THEN
                    IF RLt(profitability, threshold)
                    THEN [a1 EXCEPT !.stopped = "short_kept",
                                    !.prior = a.candidates,
                                    !.prior_amount = a.best_amount]
                    ELSE [a1 EXCEPT
                            !.best_amount = BalanceCappedAmount(buy, sell, st.ask,
                                                                total_buy_flat_fees),
                            !.best_profitability = profitability,
                            !.capped = TRUE,
                            !.stopped = "short_capped",
                            !.prior = a.candidates,
                            !.prior_amount = a.best_amount]
                ELSE SizingLoop(min_profitability, buy, sell, steps, i + 1,
                       [a1 EXCEPT !.total_bid_value_adjusted = tbva,
                                  !.total_ask_value_adjusted = tava,
                                  !.total_previous_step_base_amount = cumulative])

c_find_best_profitable_amount(min_profitability, buy, sell) ==
    LET profitable_orders ==
            c_find_profitable_arbitrage_orders(min_profitability, buy.book, sell.book,
                                               buy.quote, sell.quote)
    IN  SizingLoop(min_profitability, buy, sell, profitable_orders, 1, SizingInit)

-----------------------------------------------------------------------------
\* Configuration: the markets, the legs (MarketSymbolPair) and the configured
\* ArbitrageMarketPairs.  The two pairs share their first leg.

Markets == {"m1", "m2", "m3"}

L1 == [market |-> "m1", trading_pair |-> "ETHUSD"]
L2 == [market |-> "m2", trading_pair |-> "ETHUSD"]
L3 == [market |-> "m3", trading_pair |-> "ETHUSD"]
Legs == {L1, L2, L3}

\* What c_get_market_pair_from_order_id returns for an unknown order id (None).
NoPair == [market |-> "none", trading_pair |-> "none"]

\* ArbitrageStrategy._market_pairs
MarketPairs == << [first |-> L1, second |-> L2], [first |-> L1, second |-> L3] >>

\* ArbitrageStrategy._min_profitability
MinProfitability == <<1, 100>>

OrderTypes == {"LIMIT", "MARKET"}

\* Decimal("NaN") / float("nan")
NaN == <<0, 0>>

\* A Python argument with its run-time type: Decimal or float.
Dec(v) == [isDecimal |-> TRUE, val |-> v]
Flt(v) == [isDecimal |-> FALSE, val |-> v]

-----------------------------------------------------------------------------
\* OrderTracker (OrderLedger): interface consumed by StrategyBase.  A state st is
\* the record [tl, tm, mkt, lastTrade] threaded through one handler.

OrderTracker_start_tracking_limit_order(st, market_pair, order_id, is_buy, price, quantity, t) ==
    IF order_id \in DOMAIN st.tl \cup DOMAIN st.tm THEN st
    ELSE [st EXCEPT !.tl = st.tl @@ (order_id :>
            [market_pair |-> market_pair, is_buy |-> is_buy, price |-> price,
             quantity |-> quantity, timestamp |-> t])]

OrderTracker_start_tracking_market_order(st, market_pair, order_id, is_buy, quantity, t) ==
    IF order_id \in DOMAIN st.tl \cup DOMAIN st.tm THEN st
    ELSE [st EXCEPT !.tm = st.tm @@ (order_id :>
            [market_pair |-> market_pair, is_buy |-> is_buy, price |-> NaN,
             quantity |-> quantity, timestamp |-> t])]

OrderTracker_stop_tracking_limit_order(st, market_pair, order_id) ==
    IF order_id \in DOMAIN st.tl /\ st.tl[order_id].market_pair = market_pair
    THEN [st EXCEPT !.tl = [i \in DOMAIN st.tl \ {order_id} |-> st.tl[i]]]
    ELSE st

OrderTracker_stop_tracking_market_order(st, market_pair, order_id) ==
    IF order_id \in DOMAIN st.tm /\ st.tm[order_id].market_pair = market_pair
    THEN [st EXCEPT !.tm = [i \in DOMAIN st.tm \ {order_id} |-> st.tm[i]]]
    ELSE st

c_get_market_pair_from_order_id(st, order_id) ==
    IF order_id \in DOMAIN st.tl THEN st.tl[order_id].market_pair
    ELSE IF order_id \in DOMAIN st.tm THEN st.tm[order_id].market_pair
    ELSE NoPair

\* c_get_taker_orders()[market_symbol_pair]: the ids of the tracked market orders
\* of one leg.
c_get_taker_orders(st, market_symbol_pair) ==
    {i \in DOMAIN st.tm : st.tm[i].market_pair = market_symbol_pair}

\* StrategyBase's tracking entry points (lines 444-455).
c_start_tracking_limit_order(st, market_pair, order_id, is_buy, price, quantity, t) ==
    OrderTracker_start_tracking_limit_order(st, market_pair, order_id, is_buy, price, quantity, t)

c_stop_tracking_limit_order(st, market_pair, order_id) ==
    OrderTracker_stop_tracking_limit_order(st, market_pair, order_id)

\* The market order goes to the limit-order table.
c_start_tracking_market_order_as_limit(st, market_pair, order_id, is_buy, quantity, t) ==
    OrderTracker_start_tracking_limit_order(st, market_pair, order_id, is_buy, NaN, quantity, t)

c_start_tracking_market_order(st, market_pair, order_id, is_buy, quantity, t) ==
    OrderTracker_start_tracking_market_order(st, market_pair, order_id, is_buy, quantity, t)

c_stop_tracking_market_order(st, market_pair, order_id) ==
    OrderTracker_stop_tracking_market_order(st, market_pair, order_id)

-----------------------------------------------------------------------------
\* MarketPort.

\* MarketBase.c_buy / c_sell: the market accepts the order and returns a fresh id.
\* origin is 0 for a direct placement and the pair's index for a dispatch.
MarketSubmit(st, market_symbol_pair, is_buy, amount, order_type, price, expiration_ts, t, origin) ==
    LET order_id == Cardinality(DOMAIN st.mkt) + 1
    IN  [st EXCEPT !.mkt = st.mkt @@ (order_id :>
            [leg |-> market_symbol_pair, is_buy |-> is_buy, order_type |-> order_type,
             amount |-> amount, price |-> price, expiration_ts |-> expiration_ts,
             timestamp |-> t, origin |-> origin])]

\* MarketBase.c_quantize_order_amount: round down to a multiple of the lot size.
c_quantize_order_amount(lot, amount) ==
    RInt(lot * ((amount[1] \div amount[2]) \div lot))

-----------------------------------------------------------------------------
\* Guarded order placement (lines 365-429).  expiration_seconds is <<>> for NaN
\* and <<x>> for x seconds.  accept is FALSE when the market's c_buy / c_sell
\* itself raises.  The result is [st, raised, order_id].

\* The expiration supplied wins whenever one is supplied.
SuppliedExpiration(min_expiration, expiration_seconds) ==
    IF expiration_seconds # <<>> THEN expiration_seconds[1] ELSE min_expiration

\* Line 377 / 410: max(min_expiration, expiration_seconds); a NaN compares
\* false and leaves the minimum.
MaxExpiration(min_expiration, expiration_seconds) ==
    IF expiration_seconds # <<>> /\ expiration_seconds[1] > min_expiration
    THEN expiration_seconds[1] ELSE min_expiration

Raise(st, error) == [st |-> st, raised |-> error, order_id |-> 0]

\* The checks without the delegate lock.
BuyGuardNoLock(market_symbol_pair, amount, price) ==
    IF ~(amount.isDecimal /\ price.isDecimal) THEN "TypeError"
    ELSE IF market_symbol_pair.market \notin sbMarkets THEN "ValueError"
    ELSE "none"

\* Lines 369-384: the checks of c_buy_with_specific_market, in the order of the
\* code; the value is the exception raised, or "none".
BuyGuard(market_symbol_pair, amount, price) ==
    IF delegateLock THEN "RuntimeError"
    ELSE IF ~(amount.isDecimal /\ price.isDecimal) THEN "TypeError"
    ELSE IF market_symbol_pair.market \notin sbMarkets THEN "ValueError"
    ELSE "none"

\* Lines 402-417: the same checks of c_sell_with_specific_market.
SellGuard(market_symbol_pair, amount, price) ==
    IF delegateLock THEN "RuntimeError"
    ELSE IF ~(amount.isDecimal /\ price.isDecimal) THEN "TypeError"
    ELSE IF market_symbol_pair.market \notin sbMarkets THEN "ValueError"
    ELSE "none"

\* Registration that forgets market orders.
StartTrackingLimitOnly(st, market_symbol_pair, order_id, is_buy, order_type, price, amount, t) ==
    IF order_type = "LIMIT"
    THEN c_start_tracking_limit_order(st, market_symbol_pair, order_id, is_buy,
                                      price, amount, t)
    ELSE st

\* Lines 390-394 and 423-427: the placed order is registered with the tracker.
StartTrackingPlaced(st, market_symbol_pair, order_id, is_buy, order_type, price, amount, t) ==
    IF order_type = "LIMIT"
    THEN c_start_tracking_limit_order(st, market_symbol_pair, order_id, is_buy,
                                      price, amount, t)
    ELSE IF order_type = "MARKET"
    THEN c_start_tracking_market_order(st, market_symbol_pair, order_id, is_buy,
                                       amount, t)
    ELSE st

c_buy_with_specific_market(st, t, market_symbol_pair, amount, order_type, price, expiration_seconds, accept, origin) ==
    LET guard == BuyGuard(market_symbol_pair, amount, price)
    IN  IF guard # "none" THEN Raise(st, guard)
        ELSE IF ~accept THEN Raise(st, "MarketError")
        ELSE
          LET expiration_ts ==
                  t + MaxExpiration(LimitOrderMinExpiration, expiration_seconds)
              order_id == Cardinality(DOMAIN st.mkt) + 1
              st1 == MarketSubmit(st, market_symbol_pair, TRUE, amount.val, order_type,
                                  price.val, expiration_ts, t, origin)
              st2 == StartTrackingPlaced(st1, market_symbol_pair, order_id, TRUE,
                                         order_type, price.val, amount.val, t)
          IN  [st |-> st2, raised |-> "none", order_id |-> order_id]

c_sell_with_specific_market(st, t, market_symbol_pair, amount, order_type, price, expiration_seconds, accept, origin) ==
    LET guard == SellGuard(market_symbol_pair, amount, price)
    IN  IF guard # "none" THEN Raise(st, guard)
        ELSE IF ~accept THEN Raise(st, "MarketError")
        ELSE
          LET expiration_ts ==
                  t + MaxExpiration(LimitOrderMinExpiration, expiration_seconds)
              order_id == Cardinality(DOMAIN st.mkt) + 1
              st1 == MarketSubmit(st, market_symbol_pair, FALSE, amount.val, order_type,
                                  price.val, expiration_ts, t, origin)
              st2 == StartTrackingPlaced(st1, market_symbol_pair, order_id, FALSE,
                                         order_type, price.val, amount.val, t)
          IN  [st |-> st2, raised |-> "none", order_id |-> order_id]

-----------------------------------------------------------------------------
\* Bookkeeping hooks of the terminal events (lines 324-359).  ev is
\* [order_id, order_type].

c_did_fail_order_tracker(st, ev) ==
    LET market_pair == c_get_market_pair_from_order_id(st, ev.order_id)
    IN  IF ev.order_type = "LIMIT"
        THEN c_stop_tracking_limit_order(st, market_pair, ev.order_id)
        ELSE IF ev.order_type = "MARKET"
        THEN c_stop_tracking_market_order(st, market_pair, ev.order_id)
        ELSE st

c_did_cancel_order_tracker(st, ev) ==
    LET market_pair == c_get_market_pair_from_order_id(st, ev.order_id)
    IN  c_stop_tracking_limit_order(st, market_pair, ev.order_id)

c_did_expire_order_tracker(st, ev) == c_did_cancel_order_tracker(st, ev)

c_did_complete_buy_order_tracker(st, ev) ==
    LET market_pair == c_get_market_pair_from_order_id(st, ev.order_id)
    IN  IF market_pair # NoPair
        THEN IF ev.order_type = "LIMIT"
             THEN c_stop_tracking_limit_order(st, market_pair, ev.order_id)
             ELSE IF ev.order_type = "MARKET"
             THEN c_stop_tracking_market_order(st, market_pair, ev.order_id)
             ELSE st
        ELSE st

c_did_complete_sell_order_tracker(st, ev) == c_did_complete_buy_order_tracker(st, ev)

\* The bookkeeping hook of an event kind (lines 324-359).
TrackerHook(st, kind, ev) ==
    CASE kind = "fail" -> c_did_fail_order_tracker(st, ev)
      [] kind = "cancel" -> c_did_cancel_order_tracker(st, ev)
      [] kind = "expire" -> c_did_expire_order_tracker(st, ev)
      [] kind = "complete_buy" -> c_did_complete_buy_order_tracker(st, ev)
      [] kind = "complete_sell" -> c_did_complete_sell_order_tracker(st, ev)

\* The hook formats the market pair's name whether or not the order was found.
c_did_terminal_order_unguarded(st, ev) ==
    LET market_symbol_pair == c_get_market_pair_from_order_id(st, ev.order_id)
    IN  [observed |-> market_symbol_pair, raised |-> market_symbol_pair = NoPair]

\* Strategy hooks of ArbitrageStrategy (lines 609-641): they look the order up
\* and log when it is found.  observed is the market pair the lookup returns
\* during the hook; raised is whether the hook fails.
c_did_terminal_order(st, ev) ==
    LET market_symbol_pair == c_get_market_pair_from_order_id(st, ev.order_id)
    IN  [observed |-> market_symbol_pair, raised |-> FALSE]

\* The bookkeeping hook runs first and the strategy hook second.
ListenerCallTrackerFirst(st, kind, ev, hook_raises) ==
    LET st1 == TrackerHook(st, kind, ev)
        h == c_did_terminal_order(st1, ev)
    IN  [st |-> st1, observed |-> h.observed, raised |-> h.raised \/ hook_raises]

\* The events whose listeners (lines 49-51, 72-79) call a strategy hook only:
\* c_did_fill_order, c_did_create_buy_order, c_did_create_sell_order.
NonTerminalEvents == {"fill", "create_buy", "create_sell"}

\* A fill is booked as a completion.
ListenerCallFillCompletes(st, kind, ev, hook_raises) ==
    LET h == c_did_terminal_order(st, ev)
    IN  IF kind \in NonTerminalEvents
        THEN [st |-> IF kind = "fill" /\ ~hook_raises
                     THEN c_did_complete_buy_order_tracker(st, ev) ELSE st,
              observed |-> NoPair, raised |-> hook_raises]
        ELSE IF h.raised \/ hook_raises
        THEN [st |-> st, observed |-> h.observed, raised |-> TRUE]
        ELSE [st |-> TrackerHook(st, kind, ev), observed |-> h.observed,
              raised |-> FALSE]

\* The listeners' c_call (lines 37-79).  For a terminal event: the strategy
\* hook, then the bookkeeping hook, as two plain statements.  For a fill or a
\* creation: the strategy hook alone, which StrategyBase defines as pass (lines
\* 296-303) and ArbitrageStrategy does not override.  hook_raises is whether a
\* strategy hook overridden by a subclass raises; an exception leaves c_call
\* at once.  The result is [st, observed, raised].
ListenerCall(st, kind, ev, hook_raises) ==
    LET h == c_did_terminal_order(st, ev)
    IN  IF kind \in NonTerminalEvents
        THEN [st |-> st, observed |-> NoPair, raised |-> hook_raises]
        ELSE IF h.raised \/ hook_raises
        THEN [st |-> st, observed |-> h.observed, raised |-> TRUE]
        ELSE [st |-> TrackerHook(st, kind, ev), observed |-> h.observed,
              raised |-> FALSE]

\* The eight event tags StrategyBase subscribes to (lines 266-273), and the tag
\* an event kind is published under.
EventTags ==
    {"BuyOrderCreated", "SellOrderCreated", "OrderFilled", "OrderFailure",
     "OrderCancelled", "OrderExpired", "BuyOrderCompleted", "SellOrderCompleted"}

TagOf(kind) ==
    CASE kind = "fail" -> "OrderFailure"
      [] kind = "cancel" -> "OrderCancelled"
      [] kind = "expire" -> "OrderExpired"
      [] kind = "complete_buy" -> "BuyOrderCompleted"
      [] kind = "complete_sell" -> "SellOrderCompleted"
      [] kind = "fill" -> "OrderFilled"
      [] kind = "create_buy" -> "BuyOrderCreated"
      [] kind = "create_sell" -> "SellOrderCreated"

\* The event bus of a market: the bindings of the strategy's listeners form a
\* set, so binding twice is binding once.
PubSub_add_listeners(bus, market) == bus \cup {<<market, tag>> : tag \in EventTags}

PubSub_remove_listeners(bus, market) == bus \ {<<market, tag>> : tag \in EventTags}

\* StrategyBase.c_add_markets (lines 260-274) for one market.  r is
\* [markets, bus, calls]: the active set, the bindings and the number of
\* c_add_listener / c_remove_listener calls made so far by the handler.
c_add_markets(r, market) ==
    [markets |-> r.markets \cup {market},
     bus |-> PubSub_add_listeners(r.bus, market),
     calls |-> r.calls + Cardinality(EventTags)]

\* The market leaves the active set and keeps its subscriptions.
c_remove_markets_keeping_listeners(r, market) ==
    IF market \notin r.markets THEN r
    ELSE [r EXCEPT !.markets = r.markets \ {market}]

\* StrategyBase.c_remove_markets (lines 276-292) for one market.
c_remove_markets(r, market) ==
    IF market \notin r.markets THEN r
    ELSE [markets |-> r.markets \ {market},
          bus |-> PubSub_remove_listeners(r.bus, market),
          calls |-> r.calls + Cardinality(EventTags)]

\* StrategyBase.c_stop (lines 255-258): c_remove_markets(list(self._sb_markets)).
RECURSIVE c_stop(_, _)
c_stop(r, markets) ==
    IF markets = {} THEN r
    ELSE LET market == CHOOSE m \in markets : TRUE
         IN  c_stop(c_remove_markets(r, market), markets \ {market})

\* OrderTracker.c_check_and_track_cancel: a cancel request is accepted unless
\* one is already pending for the order id, and is pending from then on.
OrderTracker_check_and_track_cancel(pending, order_id) ==
    [accepted |-> order_id \notin pending, pending |-> pending \cup {order_id}]

\* The cancel is forwarded whatever the tracker answers.
c_cancel_order_unchecked(c, market_symbol_pair, order_id) ==
    LET a == OrderTracker_check_and_track_cancel(c.pending, order_id)
    IN  [pending |-> a.pending, accepted |-> a.accepted, forwarded |-> TRUE,
         cancels |-> Append(c.cancels, <<market_symbol_pair.market, order_id>>)]

\* StrategyBase.c_cancel_order (lines 431-436).  c is [pending, cancels];
\* market.c_cancel is the append to cancels.
c_cancel_order(c, market_symbol_pair, order_id) ==
    LET a == OrderTracker_check_and_track_cancel(c.pending, order_id)
    IN  IF a.accepted
        THEN [pending |-> a.pending, accepted |-> TRUE, forwarded |-> TRUE,
              cancels |-> Append(c.cancels, <<market_symbol_pair.market, order_id>>)]
        ELSE [pending |-> a.pending, accepted |-> FALSE, forwarded |-> FALSE,
              cancels |-> c.cancels]

-----------------------------------------------------------------------------
\* Market data a tick can see: one view per leg.

Lv(p, a) == [price |-> RInt(p), amount |-> RInt(a)]

View(bids, asks, base_balance, quote_balance, lot) ==
    [base |-> "ETH", quote |-> "USD", book |-> [bids |-> bids, asks |-> asks],
     base_balance |-> RInt(base_balance), quote_balance |-> RInt(quote_balance),
     fee |-> [percent |-> Zero, flat_fees |-> <<>>], lot |-> lot]

QuietView == View(<<Lv(99, 2)>>, <<Lv(101, 2)>>, 10, 1000, 1)
CoarseView == View(<<Lv(99, 3)>>, <<Lv(101, 3)>>, 10, 1000, 2)
CheapView == View(<<Lv(95, 3)>>, <<Lv(97, 3)>>, 10, 1000, 1)
PoorCheapView == View(<<Lv(95, 3)>>, <<Lv(97, 3)>>, 10, 48, 1)
DearView == View(<<Lv(103, 3)>>, <<Lv(105, 3)>>, 10, 1000, 1)

Scenario(v1, v2, v3) == (L1 :> v1) @@ (L2 :> v2) @@ (L3 :> v3)

Scenarios ==
    << Scenario(CheapView, CoarseView, CheapView),
       Scenario(DearView, QuietView, QuietView),
       Scenario(PoorCheapView, QuietView, QuietView) >>

\* A failure injected into one pair's evaluation: the stage at which a market
\* call raises.
NoFault == [pair |-> 0, stage |-> "none"]
Faults ==
    {NoFault} \cup
    [pair : 1..Len(MarketPairs), stage : {"book", "fee", "quantize", "buy", "sell"}]

\* Seconds between two ticks.
TickSteps == {10, 600}

-----------------------------------------------------------------------------
\* ArbitrageStrategy: readiness, direction, dispatch.

\* Lines 670-673: a tracked market order of the leg still blocks it.
PendingMarketOrder(st, t, market_symbol_pair) ==
    LET orders == c_get_taker_orders(st, market_symbol_pair)
    IN  /\ orders # {}
        /\ \E i \in orders :
              st.tm[i].timestamp - t < MARKET_ORDER_MAX_TRACKING_TIME

\* The cooldown comparison the wrong way round.
CoolingOffReversed(st, t, market_symbol_pair) ==
    LET ready_to_trade_time ==
            (IF market_symbol_pair \in DOMAIN st.lastTrade
             THEN st.lastTrade[market_symbol_pair] ELSE 0) + NextTradeDelay
    IN  market_symbol_pair \in DOMAIN st.lastTrade /\ ready_to_trade_time < t

\* Lines 676-677: the leg is cooling off from its previous trade.
CoolingOff(st, t, market_symbol_pair) ==
    LET ready_to_trade_time ==
            (IF market_symbol_pair \in DOMAIN st.lastTrade
             THEN st.lastTrade[market_symbol_pair] ELSE 0) + NextTradeDelay
    IN  market_symbol_pair \in DOMAIN st.lastTrade /\ ready_to_trade_time > t

\* Every leg is ready, whatever is tracked and whenever it last traded.
LegReadyAlways(st, t, market_symbol_pair) ==
    [ready |-> TRUE, reason |-> "none", time_left |-> 0]

\* One leg of c_ready_for_new_orders (lines 668-684).
LegReady(st, t, market_symbol_pair) ==
    IF PendingMarketOrder(st, t, market_symbol_pair)
        THEN [ready |-> FALSE, reason |-> "pending", time_left |-> 0]
        ELSE IF CoolingOff(st, t, market_symbol_pair)
        THEN [ready |-> FALSE, reason |-> "cooldown",
              time_left |-> t - st.lastTrade[market_symbol_pair] - NextTradeDelay]
        ELSE [ready |-> TRUE, reason |-> "none", time_left |-> 0]

RECURSIVE c_ready_for_new_orders(_, _, _)
c_ready_for_new_orders(st, t, market_symbol_pairs) ==
    IF market_symbol_pairs = <<>>
    THEN [ready |-> TRUE, reason |-> "none", time_left |-> 0]
    ELSE LET r == LegReady(st, t, Head(market_symbol_pairs))
         IN  IF ~r.ready THEN r
             ELSE c_ready_for_new_orders(st, t, Tail(market_symbol_pairs))

\* Lines 643-661: <<profitability_buy_2_sell_1, profitability_buy_1_sell_2>>.
c_calculate_arbitrage_top_order_profitability(view, market_pair) ==
    LET v1 == view[market_pair.first]
        v2 == view[market_pair.second]
        market_1_bid_price == adjust_token_rate(v1.quote, v1.book.bids[1].price)
        market_1_ask_price == adjust_token_rate(v1.quote, v1.book.asks[1].price)
        market_2_bid_price == adjust_token_rate(v2.quote, v2.book.bids[1].price)
        market_2_ask_price == adjust_token_rate(v2.quote, v2.book.asks[1].price)
    IN  << RSub(RDiv(market_1_bid_price, market_2_ask_price), One),
           RSub(RDiv(market_2_bid_price, market_1_ask_price), One) >>

\* The pure computations of a pair evaluation, tabulated once per scenario:
\* top-of-book profitability per configured pair, and matching and sizing per
\* (buy leg, sell leg).
TopOfBook ==
    [sc \in DOMAIN Scenarios |->
        [i \in DOMAIN MarketPairs |->
            c_calculate_arbitrage_top_order_profitability(Scenarios[sc], MarketPairs[i])]]

Sizing ==
    [sc \in DOMAIN Scenarios |->
        [legs \in {x \in Legs \X Legs : x[1] # x[2]} |->
            LET buy == Scenarios[sc][legs[1]]
                sell == Scenarios[sc][legs[2]]
            IN  [steps |-> c_find_profitable_arbitrage_orders(
                               MinProfitability, buy.book, sell.book,
                               buy.quote, sell.quote),
                 best |-> c_find_best_profitable_amount(MinProfitability, buy, sell)]]]

\* The record a pair evaluation leaves in the tick's log.
Eval(i, outcome) ==
    [pair |-> i, outcome |-> outcome, reason |-> "none", time_left |-> 0,
     buy |-> NoPair, sell |-> NoPair, raw |-> Zero, qbuy |-> Zero, qsell |-> Zero,
     amount |-> Zero, placed |-> <<>>]

\* The larger quantized amount instead of the smaller.
QuantizedOrderAmountLarger(quantized_buy_amount, quantized_sell_amount) ==
    IF RLt(quantized_buy_amount, quantized_sell_amount)
    THEN quantized_sell_amount ELSE quantized_buy_amount

\* Line 728: the amount both orders are placed with.
QuantizedOrderAmount(quantized_buy_amount, quantized_sell_amount) ==
    RMin(quantized_buy_amount, quantized_sell_amount)

\* The table is replaced by the entries of the two legs.
RecordTradeOnly(st, t, buy_market_symbol_pair, sell_market_symbol_pair) ==
    [st EXCEPT !.lastTrade =
        [l \in {buy_market_symbol_pair, sell_market_symbol_pair} |-> t]]

\* Lines 744-745: the cooldown timestamps of both legs.
RecordTrade(st, t, buy_market_symbol_pair, sell_market_symbol_pair) ==
    LET legs == {buy_market_symbol_pair, sell_market_symbol_pair}
    IN  [st EXCEPT !.lastTrade =
            [l \in DOMAIN st.lastTrade \cup legs |->
                IF l \in legs THEN t ELSE st.lastTrade[l]]]

\* Lines 742-746: after the sell call, whose result is s.  When it raised, the
\* buy order stays placed and no cooldown is recorded.
AfterSell(t, e1, buy_order_id, s) ==
    IF s.raised # "none"
    THEN [st |-> s.st,
          eval |-> [e1 EXCEPT !.outcome = "error", !.placed = <<buy_order_id>>]]
    ELSE [st |-> RecordTrade(s.st, t, e1.buy, e1.sell),
          eval |-> [e1 EXCEPT !.outcome = "dispatched",
                              !.placed = <<buy_order_id, s.order_id>>]]

\* Lines 740-743: after the buy call, whose result is b, the sell call.
AfterBuy(t, fault, e1, b) ==
    IF b.raised # "none" THEN [st |-> b.st, eval |-> Eval(e1.pair, "error")]
    ELSE AfterSell(t, e1, b.order_id,
                   c_sell_with_specific_market(b.st, t, e1.sell, Dec(e1.amount),
                       "MARKET", Dec(NaN), <<>>,
                       ~(fault.pair = e1.pair /\ fault.stage = "sell"), e1.pair))

\* Lines 730-746: nothing is placed for a zero amount; otherwise the buy call.
Dispatch(st, t, fault, e1) ==
    IF RIsZero(e1.amount) THEN [st |-> st, eval |-> e1]
    ELSE AfterBuy(t, fault, e1,
                  c_buy_with_specific_market(st, t, e1.buy, Dec(e1.amount), "MARKET",
                      Dec(NaN), <<>>,
                      ~(fault.pair = e1.pair /\ fault.stage = "buy"), e1.pair))

\* Lines 726-728: the two quantized amounts and the amount to place.
Quantized(i, buy_market_symbol_pair, sell_market_symbol_pair, best_amount, quantized_buy_amount, quantized_sell_amount) ==
    [Eval(i, "zero") EXCEPT
        !.buy = buy_market_symbol_pair, !.sell = sell_market_symbol_pair,
        !.raw = best_amount, !.qbuy = quantized_buy_amount,
        !.qsell = quantized_sell_amount,
        !.amount = QuantizedOrderAmount(quantized_buy_amount, quantized_sell_amount)]

\* Lines 707-746, given what matching and sizing return (sized).
ProcessSized(st, t, fault, i, buy_market_symbol_pair, sell_market_symbol_pair, buy_lot, sell_lot, sized) ==
    IF (fault.pair = i /\ fault.stage = "fee" /\ sized.steps # <<>>)
       \/ sized.best.raised
    THEN [st |-> st, eval |-> Eval(i, "error")]
    ELSE IF fault.pair = i /\ fault.stage = "quantize"
    THEN [st |-> st, eval |-> Eval(i, "error")]
    ELSE Dispatch(st, t, fault,
                  Quantized(i, buy_market_symbol_pair, sell_market_symbol_pair,
                            sized.best.best_amount,
                            c_quantize_order_amount(buy_lot, sized.best.best_amount),
                            c_quantize_order_amount(sell_lot, sized.best.best_amount)))

\* c_process_market_pair_inner (lines 707-746).  The result is [st, eval]; the
\* outcome "error" stands for an exception leaving the function.
c_process_market_pair_inner(st, t, sc, fault, i, buy_market_symbol_pair, sell_market_symbol_pair) ==
    ProcessSized(st, t, fault, i, buy_market_symbol_pair, sell_market_symbol_pair,
                 Scenarios[sc][buy_market_symbol_pair].lot,
                 Scenarios[sc][sell_market_symbol_pair].lot,
                 Sizing[sc][<<buy_market_symbol_pair, sell_market_symbol_pair>>])

\* A tie goes to the first leg.
DirectionTieToFirst(min_profitability, market_pair, profitability_buy_2_sell_1, profitability_buy_1_sell_2) ==
    IF RLt(profitability_buy_1_sell_2, min_profitability)
       /\ RLt(profitability_buy_2_sell_1, min_profitability)
    THEN [outcome |-> "skip", buy |-> NoPair, sell |-> NoPair]
    ELSE IF RLe(profitability_buy_2_sell_1, profitability_buy_1_sell_2)
    THEN [outcome |-> "inner", buy |-> market_pair.first, sell |-> market_pair.second]
    ELSE [outcome |-> "inner", buy |-> market_pair.second, sell |-> market_pair.first]

\* Lines 698-705: the pair is skipped (line 699) or its buy and sell legs are
\* chosen (lines 701-705).
Direction(min_profitability, market_pair, profitability_buy_2_sell_1, profitability_buy_1_sell_2) ==
    IF RLt(profitability_buy_1_sell_2, min_profitability)
       /\ RLt(profitability_buy_2_sell_1, min_profitability)
    THEN [outcome |-> "skip", buy |-> NoPair, sell |-> NoPair]
    ELSE IF RLt(profitability_buy_2_sell_1, profitability_buy_1_sell_2)
    THEN [outcome |-> "inner", buy |-> market_pair.first, sell |-> market_pair.second]
    ELSE [outcome |-> "inner", buy |-> market_pair.second, sell |-> market_pair.first]

\* Lines 699-705, given the direction d: return, or the inner evaluation.
DirectionChosen(st, t, sc, fault, i, d) ==
    IF d.outcome = "skip"
    THEN [st |-> st, eval |-> Eval(i, "unprofitable")]
    ELSE c_process_market_pair_inner(st, t, sc, fault, i, d.buy, d.sell)

\* Lines 695-705: the direction, given the two top-of-book profitabilities.
ProcessDirection(st, t, sc, fault, i, market_pair, profitability_buy_2_sell_1, profitability_buy_1_sell_2) ==
    DirectionChosen(st, t, sc, fault, i,
                    Direction(MinProfitability, market_pair,
                              profitability_buy_2_sell_1, profitability_buy_1_sell_2))

\* Lines 688-705, given what c_ready_for_new_orders returned (r).
ProcessReady(st, t, sc, fault, i, r) ==
    IF ~r.ready
    THEN [st |-> st,
          eval |-> [Eval(i, "not_ready") EXCEPT !.reason = r.reason,
                                                !.time_left = r.time_left]]
    ELSE IF fault.pair = i /\ fault.stage = "book"
    THEN [st |-> st, eval |-> Eval(i, "error")]
    ELSE ProcessDirection(st, t, sc, fault, i, MarketPairs[i],
                          TopOfBook[sc][i][1], TopOfBook[sc][i][2])

\* c_process_market_pair (lines 687-705).
c_process_market_pair(st, t, sc, fault, i) ==
    ProcessReady(st, t, sc, fault, i,
                 c_ready_for_new_orders(st, t, <<MarketPairs[i].first,
                                                 MarketPairs[i].second>>))

\* The loop of c_tick (lines 604-605): pairs in list order; an exception leaves
\* the loop.  acc is [st, evals]; r is what evaluating pair i returned.
RECURSIVE TickLoop(_, _, _, _, _)
TickStep(acc, t, sc, fault, i, r) ==
    IF r.eval.outcome = "error"
    THEN [st |-> r.st, evals |-> Append(acc.evals, r.eval)]
    ELSE TickLoop([st |-> r.st, evals |-> Append(acc.evals, r.eval)],
                  t, sc, fault, i + 1)

TickLoop(acc, t, sc, fault, i) ==
    IF i > Len(MarketPairs) THEN acc
    ELSE TickStep(acc, t, sc, fault, i, c_process_market_pair(acc.st, t, sc, fault, i))

-----------------------------------------------------------------------------
\* The strategy as a state machine.

\* The part of the state one handler threads through its calls.
Pack == [tl |-> trackedLimit, tm |-> trackedMarket, mkt |-> mkt, lastTrade |-> lastTrade]

Unpack(st) ==
    /\ trackedLimit' = st.tl
    /\ trackedMarket' = st.tm
    /\ mkt' = st.mkt
    /\ lastTrade' = st.lastTrade

\* Markets reporting not ready / not connected at a tick.
ReadyInputs == {{}, {"m2"}}
OfflineInputs == {{}, {"m3"}}

\* Arguments of a direct placement call: the leg, the order type with its
\* amount and price (Decimal or float), and the expiration.
DirectLegs == {L2}
DirectKinds ==
    { [order_type |-> "MARKET", amount |-> Dec(RInt(2)), price |-> Dec(NaN)],
      [order_type |-> "MARKET", amount |-> Flt(RInt(2)), price |-> Dec(NaN)],
      [order_type |-> "LIMIT", amount |-> Dec(RInt(2)), price |-> Dec(RInt(100))],
      [order_type |-> "LIMIT", amount |-> Dec(RInt(2)), price |-> Flt(RInt(100))] }
DirectExpirations == {<<60>>, <<200>>}

\* Markets a caller registers and unregisters after construction.
RegistrableMarkets == {"m2"}

\* Seconds between two ticks of the base class alone.
BaseTickSteps == {10}

TerminalEvents == {"fail", "cancel", "expire", "complete_buy", "complete_sell"}

\* Lines 523-528: the markets of the configured pairs, all registered by
\* __init__ through c_add_markets.
ConfiguredMarkets ==
    {MarketPairs[i].first.market : i \in 1..Len(MarketPairs)}
    \cup {MarketPairs[i].second.market : i \in 1..Len(MarketPairs)}

RECURSIVE c_add_markets_all(_, _)
c_add_markets_all(r, markets) ==
    IF markets = {} THEN r
    ELSE LET market == CHOOSE m \in markets : TRUE
         IN  c_add_markets_all(c_add_markets(r, market), markets \ {market})

\* Line 589: all([market.ready for market in self._sb_markets]), notReady being
\* the markets that report not ready at this tick.  Any instead of all:
MarketsReadyAny(markets, notReady) == \E m \in markets : m \notin notReady

MarketsReady(markets, notReady) == \A m \in markets : m \notin notReady

\* Readiness is evaluated afresh whatever an earlier tick established.
ReadyGateNoLatch(all_markets_ready, markets, notReady) ==
    MarketsReady(markets, notReady)

\* Lines 588-589: the new value of _all_markets_ready.  The markets are asked
\* only while the flag is unset; once set it stays set.
ReadyGate(all_markets_ready, markets, notReady) ==
    all_markets_ready \/ MarketsReady(markets, notReady)

\* Any instead of all:
MarketsConnectedAny(markets, offline) == \E m \in markets : m \notin offline

\* Line 599: all([market.network_status is NetworkStatus.CONNECTED ...]).
MarketsConnected(markets, offline) == \A m \in markets : m \notin offline

\* After ArbitrageStrategy.__init__ (lines 502-528) and c_start.
Init ==
    /\ now = StartTime
    /\ sbMarkets = c_add_markets_all([markets |-> {}, bus |-> {}, calls |-> 0],
                                     ConfiguredMarkets).markets
    /\ delegateLock = FALSE
    /\ trackedLimit = <<>>
    /\ trackedMarket = <<>>
    /\ mkt = <<>>
    /\ listeners = c_add_markets_all([markets |-> {}, bus |-> {}, calls |-> 0],
                                     ConfiguredMarkets).bus
    /\ inFlightCancels = {}
    /\ cancels = <<>>
    /\ allMarketsReady = FALSE
    /\ lastTimestamp = 0
    /\ lastTrade = <<>>
    /\ ticks = 0
    /\ last = [op |-> "init"]
    /\ fn = [phase |-> "none"]

\* ArbitrageStrategy.c_tick (lines 579-607), with StrategyBase.c_tick.  The
\* markets' books, balances and failures (sc, fault) are read only when the
\* tick passes both gates.
Tick(dt, notReady, offline) ==
    LET t == now + dt
        ready == ReadyGate(allMarketsReady, sbMarkets, notReady)
        connected == MarketsConnected(sbMarkets, offline)
        seen == [unready |-> sbMarkets \cap notReady # {},
                 offline |-> sbMarkets \cap offline # {},
                 resumed |-> last.op = "tick" /\ last.gate = "offline"]
    IN  /\ ticks < MaxTicks
        /\ ticks' = ticks + 1
        /\ now' = t
        /\ allMarketsReady' = ready
        /\ lastTimestamp' = t
        /\ UNCHANGED <<sbMarkets, delegateLock, listeners, inFlightCancels, cancels, fn>>
        /\ IF ~ready
           THEN /\ UNCHANGED <<trackedLimit, trackedMarket, mkt, lastTrade>>
                /\ last' = [op |-> "tick", gate |-> "not_ready", evals |-> <<>>,
                            seen |-> seen]
           ELSE IF ~connected
           THEN /\ UNCHANGED <<trackedLimit, trackedMarket, mkt, lastTrade>>
                /\ last' = [op |-> "tick", gate |-> "offline", evals |-> <<>>,
                            seen |-> seen]
           ELSE \E sc \in DOMAIN Scenarios, fault \in Faults :
                  \E acc \in {TickLoop([st |-> Pack, evals |-> <<>>], t, sc, fault, 1)} :
                      /\ Cardinality(DOMAIN acc.st.mkt) <= MaxOrders
                      /\ Unpack(acc.st)
                      /\ last' = [op |-> "tick", gate |-> "passed",
                                  evals |-> acc.evals, seen |-> seen]

\* A caller places an order through c_buy_with_specific_market /
\* c_sell_with_specific_market.  last keeps the expiration_seconds of a call
\* that forwarded an order.
PlaceOrder(is_buy, leg, amount, order_type, price, expiration_seconds, accept) ==
    LET r == IF is_buy
             THEN c_buy_with_specific_market(Pack, now, leg, amount, order_type, price,
                                             expiration_seconds, accept, 0)
             ELSE c_sell_with_specific_market(Pack, now, leg, amount, order_type, price,
                                              expiration_seconds, accept, 0)
    IN  /\ Cardinality(DOMAIN r.st.mkt) <= MaxDirect
        /\ Unpack(r.st)
        /\ last' = [op |-> "place", typed |-> amount.isDecimal /\ price.isDecimal,
                    locked |-> delegateLock, active |-> leg.market \in sbMarkets,
                    raised |-> r.raised, order_id |-> r.order_id,
                    expiration_seconds |-> IF r.order_id # 0 THEN expiration_seconds
                                          ELSE <<>>]
        /\ UNCHANGED <<now, sbMarkets, delegateLock, listeners, inFlightCancels,
                       cancels, allMarketsReady, lastTimestamp, ticks, fn>>

\* A market publishes a terminal event for one of its orders; the bus delivers
\* it to the strategy's listener bound to the event's tag (lines 37-69).
DeliverEvent(kind, order_id, hook_raises) ==
    LET o == mkt[order_id]
        ev == [order_id |-> order_id, order_type |-> o.order_type]
        r == ListenerCall(Pack, kind, ev, hook_raises)
    IN  /\ <<o.leg.market, TagOf(kind)>> \in listeners
        /\ kind \in {"complete_buy", "create_buy"} => o.is_buy
        /\ kind \in {"complete_sell", "create_sell"} => ~o.is_buy
        /\ Unpack(r.st)
        /\ last' = [op |-> "event", kind |-> kind, order_id |-> order_id,
                    observed |-> r.observed, raised |-> r.raised]
        /\ UNCHANGED <<now, sbMarkets, delegateLock, listeners, inFlightCancels,
                       cancels, allMarketsReady, lastTimestamp, ticks, fn>>

\* A caller cancels an order through c_cancel_order (lines 431-436).
CancelOrder(market_symbol_pair, order_id) ==
    \E r \in {c_cancel_order([pending |-> inFlightCancels, cancels |-> cancels],
                              market_symbol_pair, order_id)} :
        /\ Len(r.cancels) <= MaxCancels
        /\ inFlightCancels' = r.pending
        /\ cancels' = r.cancels
        /\ last' = [op |-> "cancel", order_id |-> order_id,
                    accepted |-> r.accepted, forwarded |-> r.forwarded]
        /\ UNCHANGED <<now, sbMarkets, delegateLock, trackedLimit, trackedMarket, mkt,
                       listeners, allMarketsReady, lastTimestamp, lastTrade, ticks, fn>>

\* StrategyBase.c_add_markets (lines 260-274), one market.
AddMarkets(market) ==
    \E r \in {c_add_markets([markets |-> sbMarkets, bus |-> listeners, calls |-> 0],
                             market)} :
        /\ sbMarkets' = r.markets
        /\ listeners' = r.bus
        /\ last' = [op |-> "add_markets", market |-> market,
                    was_active |-> market \in sbMarkets, calls |-> r.calls]
        /\ UNCHANGED <<now, delegateLock, trackedLimit, trackedMarket, mkt,
                       inFlightCancels, cancels,
                       allMarketsReady, lastTimestamp, lastTrade, ticks, fn>>

\* StrategyBase.c_remove_markets (lines 276-292), one market.
RemoveMarkets(market) ==
    \E r \in {c_remove_markets([markets |-> sbMarkets, bus |-> listeners, calls |-> 0],
                                market)} :
        /\ sbMarkets' = r.markets
        /\ listeners' = r.bus
        /\ last' = [op |-> "remove_markets", market |-> market,
                    was_active |-> market \in sbMarkets, calls |-> r.calls]
        /\ UNCHANGED <<now, delegateLock, trackedLimit, trackedMarket, mkt,
                       inFlightCancels, cancels,
                       allMarketsReady, lastTimestamp, lastTrade, ticks, fn>>

\* StrategyBase.c_stop (lines 255-258).
Stop ==
    \E r \in {c_stop([markets |-> sbMarkets, bus |-> listeners, calls |-> 0],
                      sbMarkets)} :
        /\ sbMarkets' = r.markets
        /\ listeners' = r.bus
        /\ last' = [op |-> "stop"]
        /\ UNCHANGED <<now, delegateLock, trackedLimit, trackedMarket, mkt,
                       inFlightCancels, cancels,
                       allMarketsReady, lastTimestamp, lastTrade, ticks, fn>>

\* A composing strategy takes or releases the delegate lock (line 110).
SetDelegateLock(value) ==
    /\ delegateLock' = value
    /\ last' = [op |-> "delegate_lock", value |-> value]
    /\ UNCHANGED <<now, sbMarkets, trackedLimit, trackedMarket, mkt,
                   listeners, inFlightCancels, cancels,
                   allMarketsReady, lastTimestamp, lastTrade, ticks, fn>>

\* StrategyBase.c_tick (lines 251-253): the clock advances; the base class does
\* nothing else.
BaseTick(dt) ==
    /\ ticks < MaxBaseTicks
    /\ ticks' = ticks + 1
    /\ now' = now + dt
    /\ last' = [op |-> "base_tick"]
    /\ UNCHANGED <<sbMarkets, delegateLock, trackedLimit, trackedMarket, mkt,
                   listeners, inFlightCancels, cancels,
                   allMarketsReady, lastTimestamp, lastTrade, fn>>

\* The arbitrage strategy as the clock and the markets drive it.
Next ==
    \/ \E dt \in TickSteps, notReady \in ReadyInputs, offline \in OfflineInputs :
            Tick(dt, notReady, offline)
    \/ \E kind \in TerminalEvents, order_id \in DOMAIN mkt :
            DeliverEvent(kind, order_id, FALSE)

Spec == Init /\ [][Next]_vars

\* The StrategyBase interface as any caller may drive it.
NextBase ==
    \/ \E is_buy \in BOOLEAN, leg \in DirectLegs, kind \in DirectKinds,
          expiration_seconds \in DirectExpirations, accept \in BOOLEAN :
            PlaceOrder(is_buy, leg, kind.amount, kind.order_type, kind.price,
                       expiration_seconds, accept)
    \/ \E kind \in TerminalEvents, order_id \in DOMAIN mkt :
            DeliverEvent(kind, order_id, FALSE)
    \/ \E market \in RegistrableMarkets : AddMarkets(market)
    \/ \E market \in RegistrableMarkets : RemoveMarkets(market)
    \/ Stop
    \/ \E value \in BOOLEAN : SetDelegateLock(value)
    \/ \E dt \in BaseTickSteps : BaseTick(dt)

SpecBase == Init /\ [][NextBase]_vars

\* Arguments of the placements behind the orders whose events and cancels are
\* delivered: one market and one limit order shape.
LifecycleKinds ==
    { [order_type |-> "MARKET", amount |-> Dec(RInt(2)), price |-> Dec(NaN)],
      [order_type |-> "LIMIT", amount |-> Dec(RInt(2)), price |-> Dec(RInt(100))] }

\* The order lifecycle of a strategy built on StrategyBase: orders are placed
\* and cancelled by the strategy, their events come from the markets, and the
\* strategy's overridden hooks may raise.
NextLifecycle ==
    \/ \E is_buy \in BOOLEAN, leg \in DirectLegs, kind \in LifecycleKinds :
            PlaceOrder(is_buy, leg, kind.amount, kind.order_type, kind.price,
                       <<60>>, TRUE)
    \/ \E kind \in TerminalEvents, order_id \in DOMAIN mkt, hook_raises \in BOOLEAN :
            DeliverEvent(kind, order_id, hook_raises)
    \/ \E kind \in NonTerminalEvents, order_id \in DOMAIN mkt :
            DeliverEvent(kind, order_id, FALSE)
    \/ \E order_id \in DOMAIN mkt : CancelOrder(mkt[order_id].leg, order_id)

SpecLifecycle == Init /\ [][NextLifecycle]_vars

\* The expiration a caller supplies with an order: none (NaN), below and above
\* the minimum of 130 seconds.
LifecycleExpirations == {<<>>, <<60>>, <<200>>}

\* Placements with every expiration as the clock ticks and the orders end.
NextExpiry ==
    \/ \E is_buy \in BOOLEAN, leg \in DirectLegs, kind \in DirectKinds,
          expiration_seconds \in LifecycleExpirations, accept \in BOOLEAN :
            PlaceOrder(is_buy, leg, kind.amount, kind.order_type, kind.price,
                       expiration_seconds, accept)
    \/ \E kind \in TerminalEvents, order_id \in DOMAIN mkt :
            DeliverEvent(kind, order_id, FALSE)
    \/ \E dt \in BaseTickSteps : BaseTick(dt)

SpecExpiry == Init /\ [][NextExpiry]_vars

-----------------------------------------------------------------------------
\* The pure functions on bounded inputs.  The strategy's own state stays as
\* constructed; fn holds the inputs and, after the call, the result.

StrategyIdle ==
    /\ now = StartTime
    /\ sbMarkets = Markets
    /\ delegateLock = FALSE
    /\ trackedLimit = <<>>
    /\ trackedMarket = <<>>
    /\ mkt = <<>>
    /\ listeners = Markets \X EventTags
    /\ inFlightCancels = {}
    /\ cancels = <<>>
    /\ allMarketsReady = FALSE
    /\ lastTimestamp = 0
    /\ lastTrade = <<>>
    /\ ticks = 0
    /\ last = [op |-> "init"]

\* Sequences of at most MaxLevels levels with prices from P and amounts from A.
LevelSeqs(P, A) ==
    UNION {[1..n -> [price : P, amount : A]] : n \in 0..MaxLevels}

\* OrderBook.bid_entries() yields strictly decreasing prices, ask_entries()
\* strictly increasing ones.
Decreasing(levels) ==
    \A k \in 1..(Len(levels) - 1) : RLt(levels[k + 1].price, levels[k].price)
Increasing(levels) ==
    \A k \in 1..(Len(levels) - 1) : RLt(levels[k].price, levels[k + 1].price)

MatchPrices == {RInt(100), RInt(102), RInt(103)}
MatchAmounts == {Zero, One, <<3, 2>>, RInt(2)}
\* Bids of 1 at 102 and 2 at 101 against asks of 3/2 at 100 and 5 at 103.
MatchExampleBids == <<Lv(102, 1), Lv(101, 2)>>
MatchExampleAsks == <<[price |-> RInt(100), amount |-> <<3, 2>>], Lv(103, 5)>>
MatchBidBooks ==
    {b \in LevelSeqs(MatchPrices, MatchAmounts) : Decreasing(b)} \cup {MatchExampleBids}
MatchAskBooks ==
    {a \in LevelSeqs(MatchPrices, MatchAmounts) : Increasing(a)} \cup {MatchExampleAsks}
MatchMinProfitabilities == {Zero, <<-1, 50>>}
\* <<buy market's quote asset, sell market's quote asset>>
MatchQuotes == {<<"USD", "USD">>, <<"USD", "EUR">>}

InitMatch ==
    /\ StrategyIdle
    /\ fn \in [phase : {"match_in"}, min_profitability : MatchMinProfitabilities,
               bids : MatchBidBooks, asks : MatchAskBooks, quotes : MatchQuotes]

\* find_profitable_arbitrage_orders (lines 902-905) applied to the inputs.
ApplyMatch ==
    /\ fn.phase = "match_in"
    /\ \E run \in {MatchRun(fn.min_profitability,
                             [bids |-> <<>>, asks |-> fn.asks],
                             [bids |-> fn.bids, asks |-> <<>>],
                             fn.quotes[1], fn.quotes[2])} :
         fn' = [phase |-> "match_out", min_profitability |-> fn.min_profitability,
                bids |-> fn.bids, asks |-> fn.asks, quotes |-> fn.quotes,
                steps |-> c_find_profitable_arbitrage_orders(
                              fn.min_profitability,
                              [bids |-> <<>>, asks |-> fn.asks],
                              [bids |-> fn.bids, asks |-> <<>>],
                              fn.quotes[1], fn.quotes[2]),
                passes |-> run.passes, ended |-> run.ended]
    /\ UNCHANGED strategyVars

NextMatch == ApplyMatch

SpecMatch == InitMatch /\ [][NextMatch]_vars

\* Top-of-book prices of the two legs of a pair: <<bid 1, ask 1, bid 2, ask 2>>.
DirectionPrices == {95, 99, 101, 105}

InitDirection ==
    /\ StrategyIdle
    /\ fn \in [phase : {"direction_in"},
               top : DirectionPrices \X DirectionPrices \X DirectionPrices \X DirectionPrices]

\* Lines 692-705 of c_process_market_pair applied to the first configured pair:
\* the two profitabilities and the direction taken.
ApplyDirection ==
    /\ fn.phase = "direction_in"
    /\ \E p \in {c_calculate_arbitrage_top_order_profitability(
                      (L1 :> View(<<Lv(fn.top[1], 1)>>, <<Lv(fn.top[2], 1)>>, 0, 0, 1))
                        @@ (L2 :> View(<<Lv(fn.top[3], 1)>>, <<Lv(fn.top[4], 1)>>, 0, 0, 1)),
                      MarketPairs[1])} :
         fn' = [phase |-> "direction_out", top |-> fn.top,
                profitability_buy_2_sell_1 |-> p[1],
                profitability_buy_1_sell_2 |-> p[2],
                direction |-> Direction(MinProfitability, MarketPairs[1], p[1], p[2])]
    /\ UNCHANGED strategyVars

SpecDirection == InitDirection /\ [][ApplyDirection]_vars

\* The two Python entry points of the matching.

\* The classmethod ArbitrageStrategy.find_profitable_arbitrage_orders (lines
\* 748-760): its second parameter is sell_order_book and its third is
\* buy_order_book, and it passes them on positionally in that order.
ArbitrageStrategy_find_profitable_arbitrage_orders(min_profitability, sell_order_book, buy_order_book, buy_market_quote_asset, sell_market_quote_asset) ==
    c_find_profitable_arbitrage_orders(min_profitability, sell_order_book, buy_order_book,
                                       buy_market_quote_asset, sell_market_quote_asset)

\* The module-level find_profitable_arbitrage_orders (lines 902-905).
find_profitable_arbitrage_orders(min_profitability, buy_order_book, sell_order_book, buy_market_quote_asset, sell_market_quote_asset) ==
    c_find_profitable_arbitrage_orders(min_profitability, buy_order_book, sell_order_book,
                                       buy_market_quote_asset, sell_market_quote_asset)

\* Books with one bid below one ask.
WrapperPrices == {99, 100, 101, 102}
WrapperBooks ==
    {[bids |-> <<Lv(x[1], x[3])>>, asks |-> <<Lv(x[2], 1)>>] :
        x \in {y \in WrapperPrices \X WrapperPrices \X {1, 2} : y[1] < y[2]}}

InitWrappers ==
    /\ StrategyIdle
    /\ fn \in [phase : {"wrap_in"}, sell_order_book : WrapperBooks,
                buy_order_book : WrapperBooks]

\* Both entry points called with the same books under their parameter names.
ApplyWrappers ==
    /\ fn.phase = "wrap_in"
    /\ fn' = [phase |-> "wrap_out", sell_order_book |-> fn.sell_order_book,
              buy_order_book |-> fn.buy_order_book,
              by_classmethod |-> ArbitrageStrategy_find_profitable_arbitrage_orders(
                                     Zero, fn.sell_order_book, fn.buy_order_book,
                                     "USD", "USD"),
              by_function |-> find_profitable_arbitrage_orders(
                                  Zero, fn.buy_order_book, fn.sell_order_book,
                                  "USD", "USD")]
    /\ UNCHANGED strategyVars

SpecWrappers == InitWrappers /\ [][ApplyWrappers]_vars

\* Construction (ArbitrageStrategy.__init__, lines 502-528) for any list of
\* market pairs, followed by a tick of the engine constructed.
MaxPairs == 2

ConstructPairs == {[first |-> a, second |-> b] : a \in Legs, b \in Legs} \ {[first |-> a, second |-> a] : a \in Legs}

ConstructPairLists ==
    UNION {[1..n -> ConstructPairs] : n \in 0..MaxPairs}

\* Line 509: the test guarding the ValueError.
PairListRejected(market_pairs) == Len(market_pairs) < 0

\* Lines 522-526: the markets of the pairs.
all_markets(market_pairs) ==
    {market_pairs[i].first.market : i \in 1..Len(market_pairs)}
    \cup {market_pairs[i].second.market : i \in 1..Len(market_pairs)}

InitConstruct ==
    /\ StrategyIdle
    /\ fn \in [phase : {"init_in"}, market_pairs : ConstructPairLists]

\* __init__ (lines 502-528): raised when line 510 raised ValueError, else the
\* fields of the engine constructed.
Construct ==
    /\ fn.phase = "init_in"
    /\ fn' = IF PairListRejected(fn.market_pairs)
             THEN [phase |-> "init_out", market_pairs |-> fn.market_pairs,
                   raised |-> TRUE, sb_markets |-> {}, all_markets_ready |-> FALSE,
                   last_timestamp |-> 0]
             ELSE [phase |-> "init_out", market_pairs |-> fn.market_pairs,
                   raised |-> FALSE,
                   sb_markets |-> c_add_markets_all(
                                      [markets |-> {}, bus |-> {}, calls |-> 0],
                                      all_markets(fn.market_pairs)).markets,
                   all_markets_ready |-> FALSE, last_timestamp |-> 0]
    /\ UNCHANGED strategyVars

\* c_tick (lines 579-607) on the engine constructed: both gates over its
\* markets, then the loop of lines 604-605 over its pairs; processed is the
\* number of pairs handed to c_process_market_pair.
ConstructedTick(dt, notReady, offline) ==
    /\ fn.phase = "init_out"
    /\ ~fn.raised
    /\ \E ready \in {ReadyGate(fn.all_markets_ready, fn.sb_markets, notReady)} :
          fn' = [phase |-> "tick_out", market_pairs |-> fn.market_pairs,
                 raised |-> FALSE, sb_markets |-> fn.sb_markets,
                 all_markets_ready |-> ready, last_timestamp |-> StartTime + dt,
                 processed |-> IF ready /\ MarketsConnected(fn.sb_markets, offline)
                               THEN Len(fn.market_pairs) ELSE 0]
    /\ UNCHANGED strategyVars

NextConstruct ==
    \/ Construct
    \/ \E dt \in TickSteps, notReady \in ReadyInputs, offline \in OfflineInputs :
            ConstructedTick(dt, notReady, offline)

SpecConstruct == InitConstruct /\ [][NextConstruct]_vars

SizingPrices == {<<1, 2>>, One, RInt(2)}
SizingAmounts == {One, RInt(2)}
SizingBidBooks == {b \in LevelSeqs(SizingPrices, SizingAmounts) : Decreasing(b)}
SizingAskBooks == {a \in LevelSeqs(SizingPrices, SizingAmounts) : Increasing(a)}
SizingQuoteBalances == {Zero, One, RInt(3)}
SizingBaseBalances == {One, RInt(3)}
SizingPercents == {Zero, <<1, 10>>}
SizingBuyFlatFees == {<<>>, << <<"USD", <<1, 2>> >> >>, << <<"GAS", One>> >>}
SizingSellFlatFees == {<<>>, << <<"USD", <<1, 2>> >> >>}
SizingMinProfitabilities == {Zero, <<1, 10>>}

\* The buy leg's view (its asks, its quote balance) and the sell leg's view (its
\* bids, its base balance) of a sizing input.
SizingBuyView(in) ==
    [base |-> "ETH", quote |-> "USD", book |-> [bids |-> <<>>, asks |-> in.asks],
     base_balance |-> Zero, quote_balance |-> in.quote_balance,
     fee |-> [percent |-> in.percent, flat_fees |-> in.buy_flat_fees], lot |-> 1]

SizingSellView(in) ==
    [base |-> "ETH", quote |-> "USD", book |-> [bids |-> in.bids, asks |-> <<>>],
     base_balance |-> in.base_balance, quote_balance |-> Zero,
     fee |-> [percent |-> in.percent, flat_fees |-> in.sell_flat_fees], lot |-> 1]

\* A buy leg that offers 5/2 at 100 against a quote balance of 50 and a sell leg
\* that bids 102 for 5/2, without fees, for base balances below, at and above 1/2.
SizingExamples ==
    [phase : {"sizing_in"}, min_profitability : {Zero},
     bids : {<<[price |-> RInt(102), amount |-> <<5, 2>>]>>},
     asks : {<<[price |-> RInt(100), amount |-> <<5, 2>>]>>},
     quote_balance : {RInt(50)}, base_balance : {<<1, 4>>, <<1, 2>>, RInt(3)},
     percent : {Zero}, buy_flat_fees : {<<>>}, sell_flat_fees : {<<>>}]

InitSizing ==
    /\ StrategyIdle
    /\ fn \in [phase : {"sizing_in"}, min_profitability : SizingMinProfitabilities,
                bids : SizingBidBooks, asks : SizingAskBooks,
                quote_balance : SizingQuoteBalances, base_balance : SizingBaseBalances,
                percent : SizingPercents, buy_flat_fees : SizingBuyFlatFees,
                sell_flat_fees : SizingSellFlatFees]
               \cup SizingExamples

\* find_best_profitable_amount (lines 896-897) applied to the inputs.
ApplySizing ==
    /\ fn.phase = "sizing_in"
    /\ fn' = [fn EXCEPT !.phase = "sizing_out"] @@
             [result |-> c_find_best_profitable_amount(
                             fn.min_profitability, SizingBuyView(fn), SizingSellView(fn))]
    /\ UNCHANGED strategyVars

NextSizing == ApplySizing

SpecSizing == InitSizing /\ [][NextSizing]_vars

-----------------------------------------------------------------------------
\* Properties.

Tracked == DOMAIN trackedLimit \cup DOMAIN trackedMarket

\* Orders a dispatch placed, and the dispatch they belong to.
DispatchOrders == {i \in DOMAIN mkt : mkt[i].origin # 0}
SameDispatch(i, j) ==
    mkt[i].origin = mkt[j].origin /\ mkt[i].timestamp = mkt[j].timestamp
\* Both orders of i's dispatch were placed, so both cooldown timestamps were set.
CompleteDispatch(i) ==
    \E j \in DispatchOrders : SameDispatch(i, j) /\ mkt[j].is_buy # mkt[i].is_buy

PairLegs(i) == {MarketPairs[i].first, MarketPairs[i].second}

TickPassed == last.op = "tick" /\ last.gate = "passed"

\* C1: after a complete dispatch for pair P at time t, every later tick with
\* now < t + NextTradeDelay finds P not ready, and no later order is dispatched
\* on either leg of P before t + NextTradeDelay, whatever events arrived.
C1_CooldownBlocksDispatch ==
    /\ \A i \in DispatchOrders, j \in DispatchOrders :
         (CompleteDispatch(i) /\ j > i /\ ~SameDispatch(i, j)
            /\ mkt[j].leg = mkt[i].leg)
         => mkt[j].timestamp >= mkt[i].timestamp + NextTradeDelay
    /\ TickPassed =>
         \A k \in DOMAIN last.evals :
            LET e == last.evals[k]
            IN  (\E i \in DispatchOrders :
                    /\ CompleteDispatch(i)
                    /\ mkt[i].origin = e.pair
                    /\ mkt[i].timestamp < now
                    /\ now < mkt[i].timestamp + NextTradeDelay)
                => e.outcome = "not_ready"

\* A tick inside the cooldown of a dispatch whose orders have all left the
\* tracker finds the pair cooling off.
C1_Witness ==
    /\ TickPassed
    /\ trackedMarket = <<>>
    /\ \E k \in DOMAIN last.evals :
         /\ last.evals[k].outcome = "not_ready"
         /\ last.evals[k].reason = "cooldown"
         /\ \E i \in DispatchOrders :
              /\ CompleteDispatch(i)
              /\ mkt[i].origin = last.evals[k].pair
              /\ mkt[i].timestamp < now
              /\ now < mkt[i].timestamp + NextTradeDelay

\* C2: once a terminal event for an order id has been handled, the order is
\* tracked neither as a limit nor as a market order.
C2_TerminalEventUntracks ==
    last.op = "event" => last.order_id \notin Tracked

\* C3: in a tick that passes both gates, an error in one pair's evaluation
\* leaves every later pair evaluated and leaves no order of the failed pair.
C3_ErrorAbandonsOnlyItsPair ==
    TickPassed =>
        /\ Len(last.evals) = Len(MarketPairs)
        /\ \A k \in DOMAIN last.evals :
             last.evals[k].outcome = "error" => last.evals[k].placed = <<>>

C5_GuardedPlacementRejects ==
    [][ (last'.op = "place" /\ last' # last
           /\ (last'.locked \/ ~last'.typed \/ ~last'.active))
        => /\ last'.raised \in {"RuntimeError", "TypeError", "ValueError"}
           /\ UNCHANGED <<sbMarkets, trackedLimit, trackedMarket, lastTrade, mkt>>
      ]_vars

\* A placement in delegate mode, with Decimal arguments on an active market that
\* already holds a tracked order, was rejected.
C5_Witness ==
    /\ last.op = "place"
    /\ last.locked /\ last.typed /\ last.active
    /\ last.raised = "RuntimeError"
    /\ Tracked # {}

\* Some leg of pair i is cooling off, or carries a tracked market order younger
\* than MARKET_ORDER_MAX_TRACKING_TIME.
BlockedByCooldownOrYoungOrder(i) ==
    \E leg \in PairLegs(i) :
        \/ leg \in DOMAIN lastTrade /\ now < lastTrade[leg] + NextTradeDelay
        \/ \E o \in DOMAIN trackedMarket :
             /\ trackedMarket[o].market_pair = leg
             /\ now - trackedMarket[o].timestamp < MARKET_ORDER_MAX_TRACKING_TIME

\* C6: a pair is found not ready only while a leg is cooling off or carries a
\* tracked market order younger than 600 seconds.
C6_OldMarketOrdersStopBlocking ==
    TickPassed =>
        \A k \in DOMAIN last.evals :
            last.evals[k].outcome = "not_ready"
            => BlockedByCooldownOrYoungOrder(last.evals[k].pair)

\* C7: every order a pair evaluation places carries the smaller of the two
\* quantized amounts; when that amount is zero nothing is placed, and a tick
\* that dispatches nothing leaves the cooldown table unchanged.
C7_DispatchAmountIsMinQuantized ==
    [][ (last'.op = "tick" /\ last'.gate = "passed" /\ ticks' # ticks) =>
          /\ \A k \in DOMAIN last'.evals :
               LET e == last'.evals[k]
                   least == RMin(e.qbuy, e.qsell)
               IN  /\ \A n \in DOMAIN e.placed :
                         /\ e.placed[n] \in DOMAIN mkt' \ DOMAIN mkt
                         /\ mkt'[e.placed[n]].amount = least
                         /\ RLe(mkt'[e.placed[n]].amount, e.qbuy)
                         /\ RLe(mkt'[e.placed[n]].amount, e.qsell)
                   /\ RIsZero(least) => e.placed = <<>>
          /\ (DOMAIN mkt' \ DOMAIN mkt)
               = UNION { {last'.evals[k].placed[n] : n \in DOMAIN last'.evals[k].placed}
                         : k \in DOMAIN last'.evals }
          /\ (\A k \in DOMAIN last'.evals : last'.evals[k].outcome # "dispatched")
               => lastTrade' = lastTrade ]_vars

\* A dispatch whose two quantized amounts differ placed both orders with the
\* smaller one.
C7_Witness ==
    /\ TickPassed
    /\ \E k \in DOMAIN last.evals :
         LET e == last.evals[k]
         IN  /\ e.outcome = "dispatched"
             /\ e.qbuy # e.qsell
             /\ \A n \in DOMAIN e.placed : mkt[e.placed[n]].amount = RMin(e.qbuy, e.qsell)

\* C8: at the end of every pair evaluation either nothing was placed, or one
\* market buy on the buy leg and one market sell on the sell leg with the same
\* amount were placed and both legs' cooldown timestamps are the tick time.
C8_DispatchIsMatchedPair ==
    TickPassed =>
        \A k \in DOMAIN last.evals :
            LET e == last.evals[k]
            IN  \/ e.placed = <<>>
                \/ /\ Len(e.placed) = 2
                   /\ mkt[e.placed[1]].is_buy /\ mkt[e.placed[1]].leg = e.buy
                   /\ ~mkt[e.placed[2]].is_buy /\ mkt[e.placed[2]].leg = e.sell
                   /\ mkt[e.placed[1]].order_type = "MARKET"
                   /\ mkt[e.placed[2]].order_type = "MARKET"
                   /\ mkt[e.placed[1]].amount = mkt[e.placed[2]].amount
                   /\ e.buy \in DOMAIN lastTrade /\ lastTrade[e.buy] = now
                   /\ e.sell \in DOMAIN lastTrade /\ lastTrade[e.sell] = now

\* The cost, before fees, of buying amount from the asks, best level first; an
\* amount beyond the book's depth is priced at the last level.
RECURSIVE BookCost(_, _)
BookCost(asks, amount) ==
    IF asks = <<>> \/ ~RLt(Zero, amount) THEN Zero
    ELSE IF Len(asks) = 1 \/ RLe(amount, asks[1].amount)
    THEN RMul(asks[1].price, amount)
    ELSE RAdd(RMul(asks[1].price, asks[1].amount),
              BookCost(Tail(asks), RSub(amount, asks[1].amount)))

\* What buying amount costs the buy leg in its quote asset, fees included.
BuyCost(buy, amount) ==
    IF ~RLt(Zero, amount) THEN Zero
    ELSE RAdd(RMul(BookCost(buy.book.asks, amount), RAdd(One, buy.fee.percent)),
              TotalFlatFees(buy.fee.flat_fees, buy.quote))

\* C9: the amount bestProfitableAmount returns does not exceed the sell leg's
\* base balance, and buying it costs no more than the buy leg's quote balance.
C9_AmountWithinBalances ==
    (fn.phase = "sizing_out" /\ ~fn.result.raised) =>
        /\ RLe(fn.result.best_amount, fn.base_balance)
        /\ RLe(BuyCost(SizingBuyView(fn), fn.result.best_amount), fn.quote_balance)

RECURSIVE SumAmounts(_, _)
SumAmounts(seq, n) ==
    IF n = 0 THEN Zero ELSE RAdd(seq[n].amount, SumAmounts(seq, n - 1))

\* C10: the steps' normalized bid/ask ratios never increase, and the steps'
\* total amount is at most the depth of the bid levels and of the ask levels
\* the steps consumed.
C10_StepsSortedAndWithinDepth ==
    fn.phase = "match_out" =>
        LET steps == fn.steps
            n == Len(steps)
        IN  /\ \A k \in 1..(n - 1) :
                 RLe(RDiv(steps[k + 1].bid_adj, steps[k + 1].ask_adj),
                     RDiv(steps[k].bid_adj, steps[k].ask_adj))
            /\ n > 0 =>
                 /\ RLe(SumAmounts(steps, n), SumAmounts(fn.bids, steps[n].bi))
                 /\ RLe(SumAmounts(steps, n), SumAmounts(fn.asks, steps[n].ai))

\* Three steps over two levels a side, the last at a strictly worse ratio than
\* the first.
C10_Witness ==
    /\ fn.phase = "match_out"
    /\ Len(fn.steps) = 3
    /\ RLt(RDiv(fn.steps[3].bid_adj, fn.steps[3].ask_adj),
           RDiv(fn.steps[1].bid_adj, fn.steps[1].ask_adj))
    /\ RLt(Zero, fn.steps[3].amount)

\* C11: the matching loop terminates on every pair of finite books and returns
\* normally: a call that returned took at most one pass per level of the two
\* books plus one, and when a side ran out (an empty book and a zero-amount
\* level included) the result is the steps emitted so far, which consumed the
\* whole depth of a side that ran out.
C11_MatchTerminatesOnExhaustion ==
    fn.phase = "match_out" =>
        /\ fn.passes <= Len(fn.bids) + Len(fn.asks) + 1
        /\ fn.ended \in {"exhausted", "closed"}
        /\ fn.ended = "exhausted" =>
              LET total == SumAmounts(fn.steps, Len(fn.steps))
              IN  \/ RIsZero(RSub(total, SumAmounts(fn.bids, Len(fn.bids))))
                  \/ RIsZero(RSub(total, SumAmounts(fn.asks, Len(fn.asks))))

\* The books ran out after three steps, one of them over a zero-amount level.
C11_Witness ==
    /\ fn.phase = "match_out"
    /\ fn.ended = "exhausted"
    /\ Len(fn.steps) = 3
    /\ \E k \in 1..3 : RIsZero(fn.steps[k].amount)
    /\ \E k \in 1..Len(fn.bids) : RIsZero(fn.bids[k].amount)

\* C12: delivering a completion, failure, cancel or expiry event for an order id
\* that has no tracked entry leaves the OrderLedger, the active-market set and
\* the cooldown table unchanged and raises no error.
C12_EventForUntrackedOrderChangesNothing ==
    [][ (last'.op = "event" /\ last'.order_id \notin Tracked)
          => /\ UNCHANGED <<trackedLimit, trackedMarket, sbMarkets, lastTrade>>
             /\ ~last'.raised ]_vars

\* A failure event arrived for an order that an earlier event had untracked,
\* while another order was tracked.
C12_Witness ==
    /\ last.op = "event"
    /\ last.kind = "fail"
    /\ last.observed = NoPair
    /\ ~last.raised
    /\ Tracked # {}

\* C13: for every terminal event the strategy hook runs before the bookkeeping
\* hook: when the event's order is tracked, the lookup made during the strategy
\* hook returns the order's market pair, and the entry is removed only after.
C13_StrategyHookSeesTrackedOrder ==
    [][ (last'.op = "event" /\ last'.order_id \in Tracked)
          => /\ last'.observed # NoPair
             /\ last'.observed = c_get_market_pair_from_order_id(Pack, last'.order_id) ]_vars

\* The strategy hook saw the market pair of an order the same event untracked.
C13_Witness ==
    /\ last.op = "event"
    /\ last.observed # NoPair
    /\ last.order_id \notin Tracked

\* C14: the bookkeeping hook runs whatever the strategy hook does, also when the
\* strategy hook raises: after a failure or completion event the order is no
\* longer tracked.
C14_BookkeepingRunsWhenHookRaises ==
    (last.op = "event" /\ last.raised
        /\ last.kind \in {"fail", "complete_buy", "complete_sell"})
      => last.order_id \notin Tracked

\* C15: until readiness is established, every tick evaluates no pair, places no
\* order and leaves the cooldown table unchanged: a tick that finds readiness
\* not yet established and a registered market not ready does nothing.
C15_NoEvaluationBeforeReady ==
    [][ (last'.op = "tick" /\ ~allMarketsReady /\ last'.seen.unready)
          => /\ last'.evals = <<>>
             /\ UNCHANGED <<mkt, trackedLimit, trackedMarket, lastTrade>>
             /\ ~allMarketsReady' ]_vars

\* A second tick in a row was stopped at the readiness gate.
C15_Witness ==
    /\ last.op = "tick"
    /\ last.gate = "not_ready"
    /\ last.seen.unready
    /\ ticks = 2
    /\ ~allMarketsReady
    /\ mkt = <<>>

\* C16: connectivity is checked afresh on every tick: a tick on which a
\* registered market is not connected evaluates no pair and places no order,
\* and a tick on which readiness is established and every registered market is
\* connected evaluates the pairs, also right after a tick that was stopped.
C16_ConnectivityCheckedEveryTick ==
    [][ last'.op = "tick"
          => /\ last'.seen.offline
                  => /\ last'.evals = <<>>
                     /\ UNCHANGED <<mkt, trackedLimit, trackedMarket, lastTrade>>
             /\ (allMarketsReady' /\ ~last'.seen.offline)
                  => (last'.gate = "passed" /\ last'.evals # <<>>) ]_vars

\* The tick after one stopped by a disconnected market evaluated the pairs.
C16_Witness ==
    /\ last.op = "tick"
    /\ last.seen.resumed
    /\ ~last.seen.offline
    /\ last.gate = "passed"
    /\ last.evals # <<>>

\* C17 as stated: readiness is re-evaluated from scratch on every tick, so any
\* tick on which a registered market reports not ready evaluates no pair.
C17_NotReadyTickEvaluatesNothing ==
    (last.op = "tick" /\ last.seen.unready) => last.evals = <<>>

\* C17, amended: readiness is evaluated on every tick until one tick has found
\* every registered market ready; from then on it stays established.  A tick is
\* stopped at the readiness gate exactly when readiness was not yet established
\* and a registered market reports not ready.
C17_ReadinessLatched ==
    [][ last'.op = "tick"
          => /\ (last'.gate = "not_ready") <=> (~allMarketsReady /\ last'.seen.unready)
             /\ allMarketsReady => allMarketsReady' ]_vars

\* A tick evaluated the pairs although a registered market reported not ready.
C17_Witness ==
    /\ last.op = "tick"
    /\ last.seen.unready
    /\ last.gate = "passed"
    /\ last.evals # <<>>

\* The cancels forwarded to the markets for one order id.
ForwardedCancels(order_id) ==
    Cardinality({k \in 1..Len(cancels) : cancels[k][2] = order_id})

\* C18: cancelOrder forwards a cancel to the market only when the OrderLedger
\* accepts the cancel request; a second cancelOrder for an order whose
\* cancellation is pending forwards nothing, so at most one cancel reaches the
\* market per order id while its cancellation is pending.
C18_OneCancelForwardedWhilePending ==
    /\ \A order_id \in DOMAIN mkt :
          /\ ForwardedCancels(order_id) <= 1
          /\ ForwardedCancels(order_id) = 1 <=> order_id \in inFlightCancels
    /\ last.op = "cancel" => (last.forwarded <=> last.accepted)

\* A second cancelOrder for the same order was refused and forwarded nothing.
C18_Witness ==
    /\ last.op = "cancel"
    /\ ~last.accepted
    /\ ~last.forwarded
    /\ ForwardedCancels(last.order_id) = 1

\* C19: addMarkets is idempotent per market: for a market already in the active
\* set it performs no subscription.
C19_AddActiveMarketSubscribesNothing ==
    (last.op = "add_markets" /\ last.was_active) => last.calls = 0

\* The bindings are those of the active markets, and stop leaves none.
SubscribedIffActive ==
    /\ \A market \in Markets, tag \in EventTags :
          <<market, tag>> \in listeners <=> market \in sbMarkets
    /\ listeners \subseteq Markets \X EventTags
    /\ last.op = "stop" => (sbMarkets = {} /\ listeners = {})

C21_DirectionByLargerProfitability ==
    fn.phase = "direction_out" =>
        LET p21 == RSub(RDiv(RInt(fn.top[1]), RInt(fn.top[4])), One)
            p12 == RSub(RDiv(RInt(fn.top[3]), RInt(fn.top[2])), One)
            d == fn.direction
        IN  /\ fn.profitability_buy_2_sell_1 = p21
            /\ fn.profitability_buy_1_sell_2 = p12
            /\ (RLt(p12, MinProfitability) /\ RLt(p21, MinProfitability))
                  <=> d.outcome = "skip"
            /\ d.outcome # "skip" =>
                  /\ d.buy = L1 <=> RLt(p21, p12)
                  /\ d.buy = L2 <=> ~RLt(p21, p12)
                  /\ d.sell = (IF d.buy = L1 THEN L2 ELSE L1)

\* Both directions are equally profitable and above the minimum: the buy leg
\* is the second leg.
C21_Witness ==
    /\ fn.phase = "direction_out"
    /\ fn.profitability_buy_2_sell_1 = fn.profitability_buy_1_sell_2
    /\ RLe(MinProfitability, fn.profitability_buy_1_sell_2)
    /\ fn.direction.buy = L2
    /\ fn.direction.sell = L1

\* The steps the sizing of the current input walks.
SizingSteps ==
    c_find_profitable_arbitrage_orders(fn.min_profitability,
                                       [bids |-> <<>>, asks |-> fn.asks],
                                       [bids |-> fn.bids, asks |-> <<>>], "USD", "USD")

\* Sum of price * amount over the first n steps, on the bid or the ask side.
RECURSIVE SumValue(_, _, _)
SumValue(steps, n, side) ==
    IF n = 0 THEN Zero
    ELSE RAdd(RMul(IF side = "bid" THEN steps[n].bid_adj ELSE steps[n].ask_adj,
                   steps[n].amount),
              SumValue(steps, n - 1, side))

\* Net cost of buying, and net proceeds of selling, the first n steps.
NetBuyCost(n) ==
    RAdd(RMul(SumValue(SizingSteps, n, "ask"), RAdd(One, fn.percent)),
         TotalFlatFees(fn.buy_flat_fees, "USD"))

NetSellProceeds(n) ==
    RSub(RMul(SumValue(SizingSteps, n, "bid"), RSub(One, fn.percent)),
         TotalFlatFees(fn.sell_flat_fees, "USD"))

\* The steps up to which the running ratio strictly exceeds 1 + min_profitability.
QualifyingSteps ==
    {k \in 1..Len(SizingSteps) :
        RLt(RAdd(One, fn.min_profitability), RDiv(NetSellProceeds(k), NetBuyCost(k)))}

\* No step finds the quote balance below the cumulative net cost or the base
\* balance below the cumulative amount.
NoShortfall ==
    \A k \in 1..Len(SizingSteps) :
        /\ RLe(NetBuyCost(k), fn.quote_balance)
        /\ RLe(SumAmounts(SizingSteps, k), fn.base_balance)

LastOf(S) == CHOOSE k \in S : \A j \in S : j <= k

\* C22: when the walk over the whole step sequence meets no balance shortfall,
\* bestProfitableAmount returns the cumulative amount up to the last step whose
\* running netSellProceeds / netBuyCost strictly exceeded 1 + minProfitability
\* (a later qualifying step replaces an earlier one), and zero when none did.
C22_AmountUpToLastQualifyingStep ==
    (fn.phase = "sizing_out" /\ NoShortfall) =>
        /\ fn.result.stopped = "exhausted"
        /\ fn.result.best_amount =
               IF QualifyingSteps = {} THEN Zero
               ELSE SumAmounts(SizingSteps, LastOf(QualifyingSteps))

\* Two steps, both qualifying, no shortfall: the amount is that of both steps.
C22_Witness ==
    /\ fn.phase = "sizing_out"
    /\ NoShortfall
    /\ Len(SizingSteps) = 2
    /\ QualifyingSteps = {1, 2}
    /\ fn.result.best_amount = SumAmounts(SizingSteps, 2)
    /\ RLt(SumAmounts(SizingSteps, 1), fn.result.best_amount)

\* C23: when the walk stops at a balance shortfall after an earlier step
\* recorded a profitable candidate, the amount returned is not smaller than
\* that candidate.
C23_ShortfallKeepsRecordedCandidate ==
    (fn.phase = "sizing_out" /\ fn.result.stopped # "exhausted" /\ fn.result.prior = 1) =>
        RLe(fn.result.prior_amount, fn.result.best_amount)

\* C25: without fees, when the first step is profitable and its cost exceeds
\* the buy leg's quote balance Q, bestProfitableAmount returns the smaller of
\* the sell leg's base balance and Q / the step's ask price.
C25_CappedByQuoteOverAskPrice ==
    (/\ fn.phase = "sizing_out"
     /\ fn.percent = Zero /\ fn.buy_flat_fees = <<>> /\ fn.sell_flat_fees = <<>>
     /\ SizingSteps # <<>>
     /\ 1 \in QualifyingSteps
     /\ RLt(fn.quote_balance, NetBuyCost(1))) =>
        fn.result.best_amount =
            RMin(fn.base_balance, RDiv(fn.quote_balance, SizingSteps[1].ask))

\* Q = 50 against 5/2 offered at 100, base balance 3: the amount is 1/2.
C25_Witness ==
    /\ fn.phase = "sizing_out"
    /\ fn.quote_balance = RInt(50)
    /\ fn.asks = <<[price |-> RInt(100), amount |-> <<5, 2>>]>>
    /\ SumAmounts(SizingSteps, Len(SizingSteps)) = <<5, 2>>
    /\ 1 \in QualifyingSteps
    /\ RLe(<<1, 2>>, fn.base_balance)
    /\ fn.result.best_amount = <<1, 2>>
\* The final state of the matching loop on the current input.
MatchFinal ==
    MatchRun(fn.min_profitability, [bids |-> <<>>, asks |-> fn.asks],
             [bids |-> fn.bids, asks |-> <<>>], fn.quotes[1], fn.quotes[2])

\* The example books matched without normalization at minProfitability 0.
MatchedExample ==
    /\ fn.phase = "match_out"
    /\ fn.bids = MatchExampleBids /\ fn.asks = MatchExampleAsks
    /\ fn.min_profitability = Zero
    /\ fn.quotes = <<"USD", "USD">>

\* The matching stopped because the spread closed with the ask level at 103.
StoppedAtAsk103 ==
    /\ fn.ended = "closed"
    /\ MatchFinal.ai \in 1..Len(fn.asks)
    /\ fn.asks[MatchFinal.ai].price = RInt(103)

\* C24 (as stated): for bids [(102, 1), (101, 2)] and asks [(100, 3/2), (103, 5)]
\* without normalization and minProfitability 0 the matching stops when the
\* ask level reaches 103 and the steps' total amount is 5/2.
C24_ExampleTotalFiveHalves ==
    MatchedExample =>
        /\ StoppedAtAsk103
        /\ SumAmounts(fn.steps, Len(fn.steps)) = <<5, 2>>

\* C24 (amended): for the same books the matching stops when the ask level
\* reaches 103 and the steps' total amount is 3/2, the depth offered at 100:
\* 1 at bid 102 / ask 100, then 1/2 at bid 101 / ask 100.
C24_ExampleTotalThreeHalves ==
    MatchedExample =>
        /\ StoppedAtAsk103
        /\ Len(fn.steps) = 2
        /\ fn.steps[1].bid = RInt(102) /\ fn.steps[1].ask = RInt(100)
        /\ fn.steps[1].amount = One
        /\ fn.steps[2].bid = RInt(101) /\ fn.steps[2].ask = RInt(100)
        /\ fn.steps[2].amount = <<1, 2>>
        /\ SumAmounts(fn.steps, Len(fn.steps)) = <<3, 2>>

C24_Witness ==
    /\ MatchedExample
    /\ StoppedAtAsk103
    /\ SumAmounts(fn.steps, Len(fn.steps)) = <<3, 2>>

C26_EmptyPairListFailsAtConstruction ==
    (fn.phase \in {"init_out", "tick_out"} /\ fn.market_pairs = <<>>) =>
        /\ fn.raised
        /\ fn.phase # "tick_out"
\* C27: an order forwarded by a placement expires at the current time plus the
\* larger of the minimum expiration and the expiration supplied, at the current
\* time plus the minimum when none is supplied, and no forwarded order expires
\* earlier than its placement time plus the minimum.
C27_ExpiryIsNowPlusLargerExpiration ==
    /\ (last.op = "place" /\ last.order_id # 0) =>
          LET supplied == last.expiration_seconds
              expiry == mkt[last.order_id].expiration_ts
          IN  /\ supplied = <<>> => expiry = now + LimitOrderMinExpiration
              /\ (supplied # <<>> /\ supplied[1] <= LimitOrderMinExpiration) =>
                    expiry = now + LimitOrderMinExpiration
              /\ (supplied # <<>> /\ supplied[1] >= LimitOrderMinExpiration) =>
                    expiry = now + supplied[1]
    /\ \A order_id \in DOMAIN mkt :
          mkt[order_id].expiration_ts >= mkt[order_id].timestamp + LimitOrderMinExpiration

\* After a tick, an order placed with 60 seconds expires 130 seconds from now.
C27_Witness ==
    /\ last.op = "place" /\ last.order_id # 0
    /\ now > StartTime
    /\ last.expiration_seconds = <<60>>
    /\ mkt[last.order_id].expiration_ts = now + 130

\* C28: after a successful placement the tracker holds exactly one entry for
\* the returned id, under the given pair and side, in the limit table with the
\* price for a limit order and in the market table without a price for a
\* market order; and no id is ever tracked in both tables.
C28_PlacedOrderTrackedOnce ==
    /\ (last.op = "place" /\ last.order_id # 0) =>
          LET id == last.order_id
              o == mkt[id]
          IN  /\ o.order_type = "LIMIT" =>
                    /\ id \in DOMAIN trackedLimit /\ id \notin DOMAIN trackedMarket
                    /\ trackedLimit[id].market_pair = o.leg
                    /\ trackedLimit[id].is_buy = o.is_buy
                    /\ trackedLimit[id].price = o.price
              /\ o.order_type = "MARKET" =>
                    /\ id \in DOMAIN trackedMarket /\ id \notin DOMAIN trackedLimit
                    /\ trackedMarket[id].market_pair = o.leg
                    /\ trackedMarket[id].is_buy = o.is_buy
                    /\ trackedMarket[id].price = NaN
    /\ DOMAIN trackedLimit \cap DOMAIN trackedMarket = {}

\* A limit sell just placed and tracked with its price.
C28_Witness ==
    /\ last.op = "place" /\ last.order_id # 0
    /\ mkt[last.order_id].order_type = "LIMIT"
    /\ ~mkt[last.order_id].is_buy
    /\ last.order_id \in DOMAIN trackedLimit
    /\ trackedLimit[last.order_id].price = RInt(100)
    /\ DOMAIN trackedMarket = {}
\* C29: a tick that falls within the cooldown of a complete dispatch on a pair
\* skips the pair and records a cooldown warning whose remaining seconds are
\* the dispatch time plus the cooldown minus now, a non-negative number,
\* whether or not the dispatched market orders are still tracked.
C29_CooldownWarningReportsRemaining ==
    TickPassed =>
        \A k \in DOMAIN last.evals :
            LET e == last.evals[k]
            IN  \A i \in DispatchOrders :
                    (/\ CompleteDispatch(i)
                     /\ mkt[i].origin = e.pair
                     /\ mkt[i].timestamp < now
                     /\ now < mkt[i].timestamp + NextTradeDelay)
                    => /\ e.outcome = "not_ready"
                       /\ e.reason = "cooldown"
                       /\ e.time_left >= 0
                       /\ e.time_left = mkt[i].timestamp + NextTradeDelay - now
\* C31: when two configured pairs share a leg, at most one of them dispatches
\* on that leg within one tick: once the earlier-listed pair has dispatched,
\* the later-listed pair is found not ready in the same tick, and no two orders
\* of one tick are on the same leg.
C31_OneDispatchPerSharedLegPerTick ==
    /\ TickPassed =>
          \A k \in DOMAIN last.evals, n \in DOMAIN last.evals :
              (/\ k < n
               /\ last.evals[k].outcome = "dispatched"
               /\ PairLegs(last.evals[k].pair) \cap PairLegs(last.evals[n].pair) # {})
              => /\ last.evals[n].outcome = "not_ready"
                 /\ last.evals[n].placed = <<>>
    /\ \A i \in DispatchOrders, j \in DispatchOrders :
          (i # j /\ mkt[i].timestamp = mkt[j].timestamp) => mkt[i].leg # mkt[j].leg

\* The first pair dispatched on the shared leg in this tick and the second
\* pair, evaluated next, was refused.
C31_Witness ==
    /\ TickPassed
    /\ Len(last.evals) = 2
    /\ last.evals[1].outcome = "dispatched"
    /\ MarketPairs[1].first = MarketPairs[2].first
    /\ MarketPairs[1].first \in {last.evals[1].buy, last.evals[1].sell}
    /\ lastTrade[MarketPairs[1].first] = now
    /\ last.evals[2].outcome = "not_ready"
\* C32: the amount bestProfitableAmount returns is never negative, the
\* balance-capped amount with flat fees above quote balance / ask price
\* included.
C32_AmountNeverNegative ==
    (fn.phase = "sizing_out" /\ ~fn.result.raised) => RLe(Zero, fn.result.best_amount)
\* C33: the cooldown table changes only at a dispatch, and then only in the
\* entries of the dispatched legs, which become the tick time: a skipped tick,
\* a pair evaluation that places no order and every event callback leave it
\* unchanged, no entry is ever removed and no leg's timestamp ever decreases.
C33_CooldownTableChangesOnlyAtDispatch ==
    [][ /\ DOMAIN lastTrade \subseteq DOMAIN lastTrade'
        /\ \A l \in DOMAIN lastTrade : lastTrade'[l] >= lastTrade[l]
        /\ \A l \in DOMAIN lastTrade' :
              (l \notin DOMAIN lastTrade \/ lastTrade'[l] # lastTrade[l])
              => /\ last'.op = "tick" /\ last'.gate = "passed"
                 /\ lastTrade'[l] = now'
                 /\ \E k \in DOMAIN last'.evals :
                       /\ last'.evals[k].outcome = "dispatched"
                       /\ Len(last'.evals[k].placed) = 2
                       /\ l \in {last'.evals[k].buy, last'.evals[k].sell}
        /\ (last'.op = "event" \/ (last'.op = "tick" /\ last'.gate # "passed"))
              => UNCHANGED lastTrade ]_vars

\* A later dispatch stamped its legs with the tick time while another leg kept
\* the timestamp of an earlier dispatch.
C33_Witness ==
    /\ TickPassed
    /\ \E k \in DOMAIN last.evals : last.evals[k].outcome = "dispatched"
    /\ \E l \in DOMAIN lastTrade : lastTrade[l] < now
    /\ \E l \in DOMAIN lastTrade : lastTrade[l] = now
\* C34: handling an order-filled, buy-created or sell-created event leaves the
\* tracked limit and market orders, the active-market set and the cooldown
\* table as they were, so a filled order stays tracked until a terminal event
\* arrives.
C34_FillAndCreationEventsChangeNoTracking ==
    [][ (last'.op = "event" /\ last'.kind \in NonTerminalEvents)
          => UNCHANGED <<trackedLimit, trackedMarket, sbMarkets, lastTrade>> ]_vars

\* A fill event was handled for a tracked order, which is still tracked.
C34_Witness ==
    /\ last.op = "event"
    /\ last.kind = "fill"
    /\ ~last.raised
    /\ last.order_id \in Tracked
\* C35: given the same sell-side book and the same buy-side book under their
\* parameter names, the classmethod and the module-level function return the
\* same steps, matching the sell-side book's bids with the buy-side book's asks.
C35_EntryPointsAgree ==
    fn.phase = "wrap_out" =>
        /\ fn.by_classmethod = fn.by_function
        /\ \A k \in DOMAIN fn.by_classmethod :
              /\ fn.by_classmethod[k].bid = fn.sell_order_book.bids[1].price
              /\ fn.by_classmethod[k].ask = fn.buy_order_book.asks[1].price
====
